---- MODULE Spec2Model ----
(***************************************************************************)
(* Project-management system: the SQLite store (data_manager.py), the EVM  *)
(* arithmetic (evm_calculator.py), the Excel template import               *)
(* (excel_exporter.py) and the notes mini-format readers (app.py).         *)
(***************************************************************************)
EXTENDS Integers, Sequences, FiniteSets, TLC

VARIABLES
    projects,              \* rows of table projects
    progress_data,         \* rows of table progress_data, in rowid order
    resources,             \* rows of table resources, in rowid order
    original_excel_files,  \* rows of table original_excel_files, in rowid order
    ret,                   \* the last call: operation, arguments, returned value
    spi, cpi, status,      \* _determine_project_status: arguments and result
    nt,                    \* a notes string: how it was written, what was read from it
    cl,                    \* a closest-value lookup: rows, period, result
    backups                \* the zip files create_backup has written

dbVars == <<projects, progress_data, resources, original_excel_files>>
statusVars == <<spi, cpi, status>>
pureVars == <<spi, cpi, status, nt, cl>>
vars == <<projects, progress_data, resources, original_excel_files, ret,
          spi, cpi, status, nt, cl, backups>>

----------------------------------------------------------------------------
(* Bounds *)
MaxProgress == 2       \* rows in progress_data
MaxResources == 1      \* rows in resources
MaxBudgetUnits == 2    \* budgets are 100, 200, ...
MaxDay == 2            \* entry dates are day 1 .. MaxDay
MaxBackups == 1        \* zip files in the backups directory

ProjectNames == {"P1", "P2"}
MaxNum == 12           \* numerators of the SPI/CPI values classified
MaxDen == 10           \* denominators of the SPI/CPI values classified

----------------------------------------------------------------------------
(* SQLite cell values: every cell is a record of one shape, so that cells   *)
(* of different storage classes can be compared.                            *)
Text(s) == [t |-> "text", s |-> s, n |-> 0]
Num(n) == [t |-> "num", s |-> "", n |-> n]
Date(d) == [t |-> "date", s |-> "", n |-> d]
NULL == [t |-> "null", s |-> "", n |-> 0]

Range(f) == {f[i] : i \in DOMAIN f}

\* The tables CREATEd by init_database.
Tables == {"parent_categories", "projects", "progress_data", "resources",
           "original_excel_files"}

\* Column order of table projects as SELECT * returns it: the CREATE TABLE
\* order of init_database followed by the columns migrate_database appends.
ProjectColumns ==
    <<"id", "project_name", "project_id", "purchase_order", "parent_category_id",
      "executing_company", "consulting_company", "start_date", "end_date",
      "total_budget", "project_location", "project_type", "project_description",
      "display_order", "created_date", "contractor_name", "project_manager">>

\* The key list get_project_info zips with the SELECT * tuple.
InfoColumns ==
    <<"id", "project_name", "executing_company", "consulting_company",
      "start_date", "end_date", "total_budget", "project_location",
      "project_type", "project_description", "created_date">>

\* The fields of project_data that add_project requires.
ProjectDataFields ==
    {"project_name", "executing_company", "consulting_company", "start_date",
     "end_date", "total_budget", "project_location", "project_type",
     "project_description"}

\* project_data dictionaries as the UI form (app.py) builds them: the
\* optional keys are absent and add_project fills in its .get defaults.
UiProjectData(name, budget) ==
    [project_name |-> Text(name),
     project_id |-> Text(""),
     parent_category_id |-> NULL,
     executing_company |-> Text("Exec Co"),
     consulting_company |-> Text("Consult Co"),
     start_date |-> Date(1),
     end_date |-> Date(2),
     total_budget |-> Num(budget),
     project_location |-> Text("Riyadh"),
     project_type |-> Text("Infra"),
     project_description |-> Text("Desc"),
     display_order |-> Num(0),
     contractor_name |-> Text(""),
     project_manager |-> Text(""),
     created_date |-> Date(1)]

ProjectInputs ==
    {UiProjectData(n, 100 * k) : n \in ProjectNames, k \in 1..MaxBudgetUnits}

\* INSERT INTO projects that keeps a row of the same name
InsertProject(rows, pd) ==
    rows \cup {[c \in Range(ProjectColumns) |->
                  IF c = "id" THEN Num(0)
                  ELSE IF c = "purchase_order" THEN NULL
                  ELSE pd[c]]}

\* INSERT OR REPLACE INTO projects: the UNIQUE(project_name) conflict deletes
\* the old row. The AUTOINCREMENT id is kept as a column (it shifts the
\* SELECT * tuple) but its value is not tracked: no operation reads it.
InsertOrReplaceProject(rows, pd) ==
    {r \in rows : r.project_name # pd.project_name}
        \cup {[c \in Range(ProjectColumns) |->
                 IF c = "id" THEN Num(0)
                 ELSE IF c = "purchase_order" THEN NULL
                 ELSE pd[c]]}

\* DELETE FROM <table> without the WHERE clause
DeleteEveryRow(rows, name) == SelectSeq(rows, LAMBDA r : FALSE)

\* DELETE FROM <table> WHERE project_name = ?
DeleteWhereName(rows, name) == SelectSeq(rows, LAMBDA r : r.project_name # name)

\* The tables delete_project's statements name, in order.
DeleteProjectStatements == <<"progress_data", "cash_flow", "resources", "projects">>

HasProject(rows, name) == \E r \in rows : r.project_name = Text(name)

\* get_project_info: SELECT * ... fetchone(), dict(zip(columns, result)).
\* info[i] is the value filed under the key InfoColumns[i].
get_project_info(rows, name) ==
    IF HasProject(rows, name)
    THEN LET r == CHOOSE x \in rows : x.project_name = Text(name)
         IN [found |-> TRUE,
             info |-> [i \in 1..Len(InfoColumns) |-> r[ProjectColumns[i]]]]
    ELSE [found |-> FALSE, info |-> <<>>]

\* info[c] of the dictionary get_project_info returns.
InfoField(res, c) ==
    res.info[CHOOSE i \in 1..Len(InfoColumns) : InfoColumns[i] = c]

----------------------------------------------------------------------------
(* Progress rows and resources *)
ProgressRow(name, day, t, notes) ==
    [project_name |-> name, entry_date |-> day,
     planned_completion |-> t.planned_completion, planned_cost |-> t.planned_cost,
     actual_completion |-> t.actual_completion, actual_cost |-> t.actual_cost,
     notes |-> notes]

ProgressInputs ==
    {ProgressRow(n, d, t, <<>>) :
        n \in ProjectNames, d \in 1..MaxDay,
        t \in {[planned_completion |-> 50, planned_cost |-> 40,
                actual_completion |-> 50, actual_cost |-> 40],
               [planned_completion |-> 100, planned_cost |-> 100,
                actual_completion |-> 50, actual_cost |-> 0]}}

ResourceInputs ==
    [project_name : ProjectNames, resource_type : {"labor"}, name : {"crew"},
     quantity : {1}, daily_rate : {10}, start_date : {1}, end_date : {2},
     notes : {""}]

\* get_progress_data: the rows of one project (ORDER BY entry_date).
get_progress_data(rows, name) == SelectSeq(rows, LAMBDA r : r.project_name = name)

\* The rows iloc[-1] can be: ORDER BY entry_date leaves the order of rows
\* of equal entry_date open, so any row of the greatest entry_date.
LatestRows(rows) ==
    {rows[i] : i \in {j \in DOMAIN rows :
                        \A k \in DOMAIN rows : rows[k].entry_date <= rows[j].entry_date}}

----------------------------------------------------------------------------
(* EVM arithmetic. SPI and CPI are kept as exact fractions num/den.        *)
Ratio(n, d) == [num |-> n, den |-> d]
Zero == Ratio(0, 1)

\* r >= a/b, for den > 0 and b > 0
AtLeast(r, a, b) == r.num * b >= a * r.den

\* r > a/b
Above(r, a, b) == r.num * b > a * r.den

\* _determine_project_status with the second test strict (> 0.9).
determine_project_status_strict(s, c) ==
    IF AtLeast(s, 10, 10) /\ AtLeast(c, 10, 10) THEN "ahead"
    ELSE IF Above(s, 9, 10) /\ Above(c, 9, 10) THEN "on_track"
    ELSE "delayed"

\* EVMCalculator._determine_project_status. The three Arabic labels are
\* written "ahead", "on_track" and "delayed".
_determine_project_status(s, c) ==
    IF AtLeast(s, 10, 10) /\ AtLeast(c, 10, 10) THEN "ahead"
    ELSE IF AtLeast(s, 9, 10) /\ AtLeast(c, 9, 10) THEN "on_track"
    ELSE "delayed"

NoKpi == [found |-> FALSE]

\* The record calculate_project_kpi builds from the budget and the latest row.
KpiRecord(name, total_budget, latest) ==
    LET pv == (total_budget * latest.planned_completion) \div 100
        ev == (total_budget * latest.actual_completion) \div 100
        ac == latest.actual_cost
        c == IF ac > 0 THEN Ratio(ev, ac) ELSE Zero
        s == IF pv > 0 THEN Ratio(ev, pv) ELSE Zero
    IN [found |-> TRUE, project_name |-> name, pv |-> pv, ev |-> ev, ac |-> ac,
        cpi |-> c, spi |-> s, cv |-> ev - ac, sv |-> ev - pv,
        status |-> _determine_project_status(s, c),
        total_budget |-> total_budget]

\* EVMCalculator.calculate_project_kpi: the values it can return.
\* project_info['total_budget'] times a float raises TypeError unless the
\* value is a number, and the except branch returns None.
calculate_project_kpi(rows, progress, name) ==
    LET res == get_project_info(rows, name)
    IN IF ~res.found THEN {NoKpi}
       ELSE IF get_progress_data(progress, name) = <<>> THEN {NoKpi}
       ELSE IF InfoField(res, "total_budget").t # "num" THEN {NoKpi}
       ELSE {KpiRecord(name, InfoField(res, "total_budget").n, latest) :
                latest \in LatestRows(get_progress_data(progress, name))}

----------------------------------------------------------------------------
(* Python strings are sequences of one-character strings.                  *)
(* Characters outside ASCII are written as named atoms: "ar0".."ar9" are   *)
(* the Arabic-Indic digits, "arsep" the Arabic thousands separator,        *)
(* "emdash" and "endash" the two long dashes.                              *)
Digits == <<"0", "1", "2", "3", "4", "5", "6", "7", "8", "9">>
ArabicDigits == <<"ar0", "ar1", "ar2", "ar3", "ar4", "ar5", "ar6", "ar7", "ar8", "ar9">>
IsAsciiDigit(c) == \E i \in 1..10 : Digits[i] = c
IsArabicDigit(c) == \E i \in 1..10 : ArabicDigits[i] = c
\* c.isdigit() for one character
IsDigitChar(c) == IsAsciiDigit(c) \/ IsArabicDigit(c)
DigitVal(c) == (CHOOSE i \in 1..10 : Digits[i] = c \/ ArabicDigits[i] = c) - 1
DigitChar(d) == Digits[d + 1]

\* the arabic_to_english replacement loop of extract_excel_row_data
ArabicToEnglish(s) ==
    [i \in 1..Len(s) |-> IF IsArabicDigit(s[i]) THEN DigitChar(DigitVal(s[i])) ELSE s[i]]

\* s[i:j] with 0-based bounds
Slice(s, i, j) == SubSeq(s, i + 1, j)

\* s.find(sub, start): the 0-based index of the first occurrence, or -1
Find(s, sub, start) ==
    LET hits == {i \in start..(Len(s) - Len(sub)) : \A k \in 1..Len(sub) : s[i + k] = sub[k]}
    IN IF hits = {} THEN -1 ELSE CHOOSE i \in hits : \A j \in hits : i <= j

\* sub in s
Contains(s, sub) == Find(s, sub, 0) # -1

\* s.strip()
Strip(s) ==
    IF \A i \in 1..Len(s) : s[i] = " " THEN <<>>
    ELSE SubSeq(s, CHOOSE i \in 1..Len(s) : s[i] # " " /\ \A j \in 1..(i - 1) : s[j] = " ",
                   CHOOSE i \in 1..Len(s) : s[i] # " " /\ \A j \in (i + 1)..Len(s) : s[j] = " ")

\* s.replace(c, '') for a one-character c
Remove(s, c) == SelectSeq(s, LAMBDA x : x # c)

\* s.lower(); the capitals that strings of the model contain
Lower(s) ==
    [i \in 1..Len(s) |->
        CASE s[i] = "N" -> "n" [] s[i] = "A" -> "a" [] s[i] = "O" -> "o"
          [] s[i] = "E" -> "e" [] s[i] = "U" -> "u" [] s[i] = "L" -> "l"
          [] s[i] = "I" -> "i" [] s[i] = "F" -> "f" [] OTHER -> s[i]]

\* s.isdigit()
IsDigit(s) == s # <<>> /\ \A i \in 1..Len(s) : IsDigitChar(s[i])

RECURSIVE IntToStr(_)
\* str(n) for n >= 0
IntToStr(n) ==
    IF n < 10 THEN <<DigitChar(n)>>
    ELSE Append(IntToStr(n \div 10), DigitChar(n % 10))

RECURSIVE StrToInt(_)
\* int(s) for a string of digits
StrToInt(s) ==
    IF s = <<>> THEN 0
    ELSE 10 * StrToInt(SubSeq(s, 1, Len(s) - 1)) + DigitVal(s[Len(s)])

RECURSIVE Zeros(_)
\* '0' * n
Zeros(n) == IF n <= 0 THEN <<>> ELSE <<"0">> \o Zeros(n - 1)

----------------------------------------------------------------------------
(* Python values. A float is kept as the decimal number its repr shows:    *)
(* sign, significant digits without leading or trailing zeros, and the     *)
(* power of ten e, so that the value is digits * 10^e.                     *)
Val(k, neg, digits, e, s) == [k |-> k, neg |-> neg, digits |-> digits, e |-> e, s |-> s]
PyNone == Val("None", FALSE, <<>>, 0, <<>>)
PyInt0 == Val("int", FALSE, <<>>, 0, <<>>)
PyInf(neg) == Val("inf", neg, <<>>, 0, <<>>)
PyNan == Val("nan", FALSE, <<>>, 0, <<>>)
PyStr(s) == Val("str", FALSE, <<>>, 0, s)
\* a pandas Timestamp at midnight of the day with Excel serial number d
PyTimestamp(d) == Val("ts", FALSE, <<>>, d, <<>>)
ValueError == Val("error", FALSE, <<>>, 0, <<>>)

RECURSIVE StripLeadingZeros(_)
StripLeadingZeros(ds) ==
    IF ds # <<>> /\ ds[1] = "0" THEN StripLeadingZeros(Tail(ds)) ELSE ds

RECURSIVE PyFloat(_, _, _)
\* the float with the given sign, digit string and exponent
PyFloat(neg, ds, e) ==
    LET d == StripLeadingZeros(ds)
    IN IF d = <<>> THEN Val("float", FALSE, <<>>, 0, <<>>)
       ELSE IF d[Len(d)] = "0" THEN PyFloat(neg, SubSeq(d, 1, Len(d) - 1), e + 1)
       ELSE Val("float", neg, d, e, <<>>)

\* a positive float
F(ds, e) == PyFloat(FALSE, ds, e)

IsZero(v) == v.k \in {"int", "float"} /\ v.digits = <<>>

\* position of the decimal point, counted from the first significant digit
DecPt(v) == Len(v.digits) + v.e

\* a < b for digit strings read as fractions 0.d1d2...
RECURSIVE FracLess(_, _)
FracLess(a, b) ==
    IF b = <<>> THEN FALSE
    ELSE IF a = <<>> THEN TRUE
    ELSE IF a[1] # b[1] THEN DigitVal(a[1]) < DigitVal(b[1])
    ELSE FracLess(Tail(a), Tail(b))

\* abs(v) > abs(w) for finite numbers
AbsGreater(v, w) ==
    IF IsZero(v) THEN FALSE
    ELSE IF IsZero(w) THEN TRUE
    ELSE IF DecPt(v) # DecPt(w) THEN DecPt(v) > DecPt(w)
    ELSE FracLess(w.digits, v.digits)

\* v > w for a float v, an infinity or a NaN, and a positive finite w
Greater(v, w) ==
    CASE v.k = "inf" -> ~v.neg
      [] v.k = "nan" -> FALSE
      [] OTHER -> ~v.neg /\ AbsGreater(v, w)

\* v == w as Python compares numbers (0 == 0.0, NaN equals nothing)
NumEq(v, w) ==
    CASE v.k \in {"int", "float"} /\ w.k \in {"int", "float"} ->
             v.digits = w.digits /\ v.e = w.e /\ (v.neg = w.neg \/ v.digits = <<>>)
      [] v.k = "inf" /\ w.k = "inf" -> v.neg = w.neg
      [] OTHER -> FALSE

\* float(): integer part ip, fraction part fp and exponent digits. Above
\* 1.8e308 the result is an infinity, below 4.9e-324 it is zero.
FloatDigits(neg, ip, fp, expNeg, expDigits) ==
    LET v == PyFloat(neg, ip \o fp,
                     (IF expNeg THEN -1 ELSE 1) * StrToInt(expDigits) - Len(fp))
    IN IF ~(/\ \A i \in 1..Len(ip) : IsDigitChar(ip[i])
            /\ \A i \in 1..Len(fp) : IsDigitChar(fp[i])
            /\ ip \o fp # <<>>
            /\ IsDigit(expDigits)) THEN ValueError
       ELSE IF IsZero(v) THEN v
       ELSE IF DecPt(v) > 309 THEN PyInf(neg)
       ELSE IF DecPt(v) < -323 THEN PyFloat(FALSE, <<>>, 0)
       ELSE v

\* float(): the stripped text s0 is a sign, then inf, nan, or a mantissa
\* with an optional exponent
FloatText(s0) ==
    LET neg == s0 # <<>> /\ s0[1] = "-"
        body == IF s0 # <<>> /\ s0[1] \in {"+", "-"} THEN Tail(s0) ELSE s0
        ePos == Find(Lower(body), <<"e">>, 0)
        mant == IF ePos = -1 THEN body ELSE Slice(body, 0, ePos)
        expo == IF ePos = -1 THEN <<"0">> ELSE Slice(body, ePos + 1, Len(body))
        dot == Find(mant, <<".">>, 0)
    IN IF Lower(body) \in {<<"i", "n", "f">>, <<"i", "n", "f", "i", "n", "i", "t", "y">>}
         THEN PyInf(neg)
       ELSE IF Lower(body) = <<"n", "a", "n">> THEN PyNan
       ELSE FloatDigits(neg,
                        IF dot = -1 THEN mant ELSE Slice(mant, 0, dot),
                        IF dot = -1 THEN <<>> ELSE Slice(mant, dot + 1, Len(mant)),
                        expo # <<>> /\ expo[1] = "-",
                        IF expo # <<>> /\ expo[1] \in {"+", "-"} THEN Tail(expo) ELSE expo)

\* float(s): Python's grammar (any Unicode decimal digit counts as a digit)
\* without digit-group underscores; the result is a float, an infinity, a
\* NaN, or ValueError.
float(str) == FloatText(ArabicToEnglish(Strip(str)))

\* repr(x) of a float, as an f-string writes it
FmtFloat(v) ==
    LET n == Len(v.digits)
        pt == DecPt(v)
        sign == IF v.neg THEN <<"-">> ELSE <<>>
        ex == pt - 1
        exAbs == IF ex < 0 THEN -ex ELSE ex
    IN IF v.digits = <<>> THEN <<"0", ".", "0">>
       ELSE IF pt > -4 /\ pt <= 16
         THEN sign \o
              (IF pt <= 0 THEN <<"0", ".">> \o Zeros(-pt) \o v.digits
               ELSE IF pt >= n THEN v.digits \o Zeros(pt - n) \o <<".", "0">>
               ELSE SubSeq(v.digits, 1, pt) \o <<".">> \o SubSeq(v.digits, pt + 1, n))
       ELSE sign \o <<v.digits[1]>>
              \o (IF n > 1 THEN <<".">> \o Tail(v.digits) ELSE <<>>)
              \o <<"e", IF ex < 0 THEN "-" ELSE "+">>
              \o (IF exAbs < 10 THEN <<"0">> ELSE <<>>) \o IntToStr(exAbs)

----------------------------------------------------------------------------
(* Dates are Excel serial numbers: days since 1899-12-30.                   *)
EpochSerial == 25569    \* 1970-01-01
Day0 == 45292           \* 2024-01-01, the first day of the workbooks' schedules

\* the serial number of the civil date y-m-d
DaysFromCivil(y, m, d) ==
    LET y1 == IF m <= 2 THEN y - 1 ELSE y
        era == y1 \div 400
        yoe == y1 - era * 400
        doy == (153 * (IF m > 2 THEN m - 3 ELSE m + 9) + 2) \div 5 + d - 1
        doe == yoe * 365 + yoe \div 4 - yoe \div 100 + doy
    IN era * 146097 + doe - 719468 + EpochSerial

\* the civil date of a serial number
CivilFromDays(serial) ==
    LET z == serial - EpochSerial + 719468
        era == z \div 146097
        doe == z - era * 146097
        yoe == (doe - doe \div 1460 + doe \div 36524 - doe \div 146096) \div 365
        doy == doe - (365 * yoe + yoe \div 4 - yoe \div 100)
        mp == (5 * doy + 2) \div 153
        d == doy - (153 * mp + 2) \div 5 + 1
        m == IF mp < 10 THEN mp + 3 ELSE mp - 9
        y == yoe + era * 400 + (IF m <= 2 THEN 1 ELSE 0)
    IN [year |-> y, month |-> m, day |-> d]

DaysInMonth(y, m) ==
    IF m = 2 THEN (IF y % 4 = 0 /\ (y % 100 # 0 \/ y % 400 = 0) THEN 29 ELSE 28)
    ELSE IF m \in {4, 6, 9, 11} THEN 30 ELSE 31

\* str(n).zfill(w)
Pad(n, w) == Zeros(w - Len(IntToStr(n))) \o IntToStr(n)

\* date.strftime('%Y-%m-%d')
strftime(serial) ==
    LET c == CivilFromDays(serial)
    IN Pad(c.year, 4) \o <<"-">> \o Pad(c.month, 2) \o <<"-">> \o Pad(c.day, 2)

NoDate == [ok |-> FALSE, serial |-> 0]
SomeDate(serial) == [ok |-> TRUE, serial |-> serial]

\* strptime: %Y is four digits, %m one or two, %d one or two or a space
\* and one; then the date must exist
StrptimeFields(ys, ms, ds0) ==
    LET ds == IF Len(ds0) = 2 /\ ds0[1] = " " THEN <<ds0[2]>> ELSE ds0
        y == StrToInt(ys)
        m == StrToInt(ms)
        d == StrToInt(ds)
    IN IF /\ Len(ys) = 4 /\ Len(ms) \in {1, 2} /\ Len(ds) \in {1, 2}
          /\ \A i \in 1..Len(ys) : IsAsciiDigit(ys[i])
          /\ \A i \in 1..Len(ms) : IsAsciiDigit(ms[i])
          /\ \A i \in 1..Len(ds) : IsAsciiDigit(ds[i])
          /\ y >= 1 /\ m \in 1..12 /\ d >= 1 /\ d <= DaysInMonth(y, m)
       THEN SomeDate(DaysFromCivil(y, m, d)) ELSE NoDate

\* datetime.strptime(s, '%Y-%m-%d').date(); NoDate stands for ValueError
strptime(s) ==
    LET d1 == Find(s, <<"-">>, 0)
        d2 == IF d1 = -1 THEN -1 ELSE Find(s, <<"-">>, d1 + 1)
    IN IF d1 = -1 \/ d2 = -1 THEN NoDate
       ELSE StrptimeFields(Slice(s, 0, d1), Slice(s, d1 + 1, d2), Slice(s, d2 + 1, Len(s)))

MaxSerial == 2958465    \* date.max, 9999-12-31

\* int(x) of a positive float below 10^8
Trunc(v) ==
    IF DecPt(v) <= 0 THEN 0
    ELSE StrToInt(SubSeq(v.digits \o Zeros(DecPt(v) - Len(v.digits)), 1, DecPt(v)))

\* parse_excel_maybe_date
parse_excel_maybe_date(value) ==
    CASE value.k = "None" -> NoDate
      [] value.k = "str" ->
            IF Strip(value.s) # <<>> THEN strptime(value.s) ELSE NoDate
      [] value.k \in {"int", "float"} ->
            IF IsZero(value) \/ value.neg THEN NoDate
            ELSE IF DecPt(value) > 7 THEN NoDate          \* OverflowError
            ELSE IF Trunc(value) > MaxSerial THEN NoDate  \* OverflowError
            ELSE SomeDate(Trunc(value))
      [] value.k = "inf" -> NoDate   \* -inf > 0 is false; int(inf) raises
      [] value.k = "nan" -> NoDate   \* nan > 0 is false
      [] value.k = "ts" -> SomeDate(value.e)
      [] OTHER -> NoDate

----------------------------------------------------------------------------
(* The notes mini-format *)
\* empty_symbols of extract_excel_row_data; its three Arabic phrases use
\* letters that no string of the model contains.
EmptySymbols == {<<"-">>, <<"emdash">>, <<"endash">>, <<"_">>,
                 <<"n", "/", "a">>, <<"n", "a">>}

\* f"R{row_number}:"
RowKey(row_number) == <<"R">> \o IntToStr(row_number) \o <<":">>

\* extract_excel_row_data, the branch for the date rows 17 and 20
DateRowValue(value_str) ==
    LET date_serial == float(value_str)
    IN IF Contains(value_str, <<"-">>) /\ Len(value_str) >= 10 THEN PyStr(value_str)
       ELSE IF value_str = <<"0">> \/ value_str = <<"0", ".", "0">> THEN PyNone
       ELSE IF /\ IsDigit(Remove(Remove(value_str, "."), "-"))
               /\ date_serial.k # "error"
               /\ Greater(date_serial, PyFloat(FALSE, <<"4">>, 4))
         THEN date_serial
       ELSE PyNone

\* extract_excel_row_data, the branch for the other rows
NumericRowValue(value_str0) ==
    LET value_str == Strip(value_str0)
        cleaned == Remove(Remove(Remove(value_str, ","), "arsep"), " ")
        percent == float(Strip(Remove(cleaned, "%")))
        result == float(ArabicToEnglish(cleaned))
    IN IF Lower(value_str) \in EmptySymbols \/ value_str \in EmptySymbols
         THEN PyFloat(FALSE, <<>>, 0)
       ELSE IF Contains(cleaned, <<"%">>)
         THEN (IF percent.k = "error" THEN PyNone ELSE percent)
       ELSE IF result.k \in {"error", "inf"} THEN PyNone
       ELSE IF result.k = "float" /\ AbsGreater(result, PyFloat(FALSE, <<"1">>, 15))
         THEN PyNone
       ELSE result

\* extract_excel_row_data: the text between the key and the next bar
RowValue(value_str, row_number) ==
    IF value_str = <<>>
       \/ Lower(value_str) \in {<<"n", "u", "l", "l">>, <<"n", "o", "n", "e">>,
                                <<"n", "a", "n">>}
      THEN PyNone
    ELSE IF row_number \in {17, 20} THEN DateRowValue(value_str)
    ELSE NumericRowValue(value_str)

\* the value read up to the end of the notes, whatever bar follows
ValueToEnd(notes, start_idx, bar, row_number) ==
    RowValue(Strip(Slice(notes, start_idx, Len(notes))), row_number)

\* extract_excel_row_data: notes[start_idx:end_idx], end_idx from the bar
ValueUpTo(notes, start_idx, bar, row_number) ==
    RowValue(Strip(Slice(notes, start_idx, IF bar = -1 THEN Len(notes) ELSE bar)),
             row_number)

\* extract_excel_row_data once the notes are stripped and the key is built
KeyedValue(notes, row_key, row_number) ==
    IF ~Contains(notes, row_key) THEN PyNone
    ELSE ValueUpTo(notes, Find(notes, row_key, 0) + Len(row_key),
                   Find(notes, <<"|">>, Find(notes, row_key, 0) + Len(row_key)),
                   row_number)

\* extract_excel_row_data(notes_str, row_number)
extract_excel_row_data(notes_str, row_number) ==
    IF notes_str = <<>> THEN PyNone
    ELSE KeyedValue(Strip(notes_str), RowKey(row_number), row_number)

\* f"{v}" of a value the import holds
Fmt(v) ==
    CASE v.k = "int" -> <<"0">>
      [] v.k = "float" -> FmtFloat(v)
      [] v.k = "inf" -> IF v.neg THEN <<"-", "i", "n", "f">> ELSE <<"i", "n", "f">>
      [] v.k = "nan" -> <<"n", "a", "n">>
      [] v.k = "str" -> v.s
      [] v.k = "ts" -> strftime(v.e) \o <<" ", "0", "0", ":", "0", "0", ":", "0", "0">>
      [] OTHER -> <<"N", "o", "n", "e">>

\* The row numbers of the notes keys, in the order the import writes them.
NoteRows == <<7, 8, 9, 10, 11, 12, 13, 17, 18, 19, 20, 21, 22>>

RECURSIVE JoinNotes(_, _)
\* 'R7:{..}|R8:{..}|...' for the values f[7], f[8], ... of the rows from i on
JoinNotes(f, i) ==
    RowKey(NoteRows[i]) \o Fmt(f[NoteRows[i]])
        \o (IF i = Len(NoteRows) THEN <<>> ELSE <<"|">> \o JoinNotes(f, i + 1))

\* the notes string import_project_template writes for a progress entry
NotesOf(f) == JoinNotes(f, 1)

----------------------------------------------------------------------------
(* A worksheet as pd.read_excel(header=None) returns it: nrows x ncols     *)
(* cells with 0-based indices; a cell is NaN (empty), a float, a string or *)
(* a Timestamp. Cells that grid does not list are empty.                   *)
CellAt(sheet, row_idx, col_idx) ==
    IF <<row_idx, col_idx>> \in DOMAIN sheet.grid
    THEN sheet.grid[<<row_idx, col_idx>>] ELSE PyNan

\* safe_extract_value(row_idx, col_idx) of import_project_template
safe_extract_value(sheet, row_idx, col_idx) ==
    IF sheet.nrows <= row_idx \/ sheet.ncols <= col_idx THEN PyInt0
    ELSE LET raw_value == CellAt(sheet, row_idx, col_idx)
         IN IF raw_value.k = "nan" \/ raw_value = PyStr(<<>>) THEN PyInt0
            ELSE IF raw_value.k = "str"
              THEN LET clean_value == Remove(Remove(Strip(raw_value.s), ","), "arsep")
                       result == IF Contains(clean_value, <<"%">>)
                                 THEN float(Strip(Remove(clean_value, "%")))
                                 ELSE float(clean_value)
                   IN IF result.k = "error" THEN PyInt0 ELSE result
            ELSE raw_value

\* find_resource_data_smart: what a cell value val counts as for the data
\* type searched, PyNone when the search goes on. pd.to_datetime of a
\* non-zero float of magnitude below 10^13 is that many nanoseconds from
\* 1970-01-01.
Found(data_type, val) ==
    IF data_type = "date"
    THEN IF val.k = "ts" THEN val
         ELSE IF Greater(val, PyFloat(FALSE, <<"4">>, 4)) THEN val
         ELSE IF val.k = "float" /\ ~IsZero(val)
           THEN PyTimestamp(IF val.neg /\ DecPt(val) >= 1
                            THEN EpochSerial - 1 ELSE EpochSerial)
         ELSE PyNone
    ELSE IF val.k \in {"float", "inf"} /\ ~IsZero(val) /\ ~val.neg THEN val
    ELSE PyNone

RECURSIVE FindResource(_, _, _, _, _)
\* the search loop of find_resource_data_smart from column check_col on
FindResource(sheet, row_idx, data_type, check_col, max_search_cols) ==
    IF check_col >= max_search_cols THEN PyNone
    ELSE LET found == Found(data_type, safe_extract_value(sheet, row_idx, check_col))
         IN IF sheet.nrows > row_idx /\ sheet.ncols > check_col /\ found # PyNone
            THEN found
            ELSE FindResource(sheet, row_idx, data_type, check_col + 1, max_search_cols)

\* find_resource_data_smart(row_idx, data_type) while column col_idx is read
find_resource_data_smart(sheet, col_idx, row_idx, data_type) ==
    LET max_search_cols == IF sheet.ncols < col_idx + 20 THEN sheet.ncols ELSE col_idx + 20
    IN FindResource(sheet, row_idx, data_type, 1, max_search_cols)

\* the conversion of the row-7 date cell to entry_date; NoDate when the
\* column is skipped. String cells are ISO dates or text no format parses.
EntryDate(date_value) ==
    CASE date_value.k = "ts" -> SomeDate(date_value.e)
      [] date_value.k = "str" -> IF date_value.s = <<>> THEN NoDate ELSE strptime(date_value.s)
      [] date_value.k = "float" ->
            IF IsZero(date_value) THEN NoDate
            ELSE IF DecPt(date_value) > 7 THEN NoDate
            ELSE SomeDate(IF date_value.neg THEN -Trunc(date_value) ELSE Trunc(date_value))
      [] OTHER -> NoDate

\* weekly_date / monthly_date as stored: a Timestamp becomes its
\* '%Y-%m-%d' string, None becomes 0
StoredDate(v) ==
    IF v.k = "ts" THEN PyStr(strftime(v.e)) ELSE IF v.k = "None" THEN PyInt0 ELSE v

\* weekly_manpower etc. as stored: None becomes 0
StoredCount(v) == IF v.k = "None" THEN PyInt0 ELSE v

\* the values import_project_template reads for column col_idx, by the row
\* number of the notes key they are written under
EntryFields(sheet, col_idx) ==
    [k \in Range(NoteRows) |->
        CASE k \in 7..13 -> safe_extract_value(sheet, k, col_idx)
          [] k \in {17, 20} ->
                StoredDate(find_resource_data_smart(sheet, col_idx, k - 1, "date"))
          [] OTHER ->
                StoredCount(find_resource_data_smart(sheet, col_idx, k - 1, "numeric"))]

\* What the import does with a column whose date is entry_date and whose
\* values are f: "none" when the column has no date, "raised" when float()
\* of a Timestamp raises and the except branch skips the entry, "all_zero"
\* when the entry is skipped as empty, "saved" with the dictionary handed to
\* add_progress_data.
EntryOutcome(entry_date, f) ==
    LET out(kind) == [kind |-> kind, entry_date |-> entry_date.serial, fields |-> f,
                      notes |-> IF kind = "saved" THEN NotesOf(f) ELSE <<>>]
    IN IF ~entry_date.ok THEN out("none")
       ELSE IF \E k \in {7, 8, 10, 11} : f[k].k = "ts" THEN out("raised")
       ELSE IF \A k \in {7, 8, 13, 9, 10} : f[k].k = "None" \/ IsZero(f[k])
         THEN out("all_zero")
       ELSE out("saved")

\* the body of the column loop of import_project_template for column col_idx
ImportEntry(sheet, col_idx) ==
    EntryOutcome(EntryDate(CellAt(sheet, 6, col_idx)), EntryFields(sheet, col_idx))

----------------------------------------------------------------------------
(* import_project_template: the uploaded workbook, sheet by sheet.         *)
RECURSIVE Join(_)
\* a Python string as the TEXT value SQLite stores
Join(s) == IF s = <<>> THEN "" ELSE s[1] \o Join(Tail(s))

RECURSIVE CommaJoin(_)
\* ','.join(names)
CommaJoin(names) ==
    IF names = <<>> THEN ""
    ELSE IF Len(names) = 1 THEN names[1]
    ELSE names[1] \o "," \o CommaJoin(Tail(names))

\* s.endswith(suffix)
EndsWith(s, suffix) ==
    Len(s) >= Len(suffix) /\ SubSeq(s, Len(s) - Len(suffix) + 1, Len(s)) = suffix

\* str(wb_data.iloc[r, c]).strip() if not pd.isna(wb_data.iloc[r, c]) else default
CellText(sheet, row_idx, col_idx, default) ==
    IF CellAt(sheet, row_idx, col_idx).k = "nan" THEN default
    ELSE Strip(Fmt(CellAt(sheet, row_idx, col_idx)))

\* project_name: the text of B3 after its first colon
ProjectNameOf(project_name_cell) ==
    IF Contains(project_name_cell, <<":">>)
    THEN Strip(Slice(project_name_cell, Find(project_name_cell, <<":">>, 0) + 1,
                     Len(project_name_cell)))
    ELSE project_name_cell

\* project_id: the text of E3 before its first " - "
ProjectIdOf(raw_project_id) ==
    IF Contains(raw_project_id, <<" ", "-", " ">>)
    THEN Strip(Slice(raw_project_id, 0, Find(raw_project_id, <<" ", "-", " ">>, 0)))
    ELSE raw_project_id

\* the name the template carries in B3 until one is entered
Placeholder ==
    <<"[", "E", "n", "t", "e", "r", " ", "P", "r", "o", "j", "e", "c", "t", " ",
      "N", "a", "m", "e", "]">>

\* the progress_data dictionary of one column, as the row add_progress_data
\* inserts; no row when the column saves nothing. The cells of the
\* workbooks hold whole numbers.
SavedEntries(name, e) ==
    IF e.kind # "saved" THEN <<>>
    ELSE <<ProgressRow(name, e.entry_date,
                       [planned_completion |-> Trunc(e.fields[10]),
                        planned_cost |-> Trunc(e.fields[8]),
                        actual_completion |-> Trunc(e.fields[11]),
                        actual_cost |-> Trunc(e.fields[7])],
                       e.notes)>>

RECURSIVE ColumnLoop(_, _, _)
\* for col_idx in range(1, min(2001, len(wb_data.columns))): the rows added
ColumnLoop(sheet, name, col_idx) ==
    IF col_idx >= sheet.ncols \/ col_idx >= 2001 THEN <<>>
    ELSE SavedEntries(name, ImportEntry(sheet, col_idx))
            \o ColumnLoop(sheet, name, col_idx + 1)

\* a sheet of more than two rows whose B3 gives project_name: the name is
\* skipped, or iloc[3, 4] raises IndexError on a sheet of fewer than five
\* columns, or the sheet gives a project and its progress entries
ReadNamedSheet(sheet, project_name) ==
    IF project_name = <<>> \/ project_name = Placeholder THEN [kind |-> "skipped"]
    ELSE IF sheet.nrows > 3 /\ sheet.ncols <= 4 THEN [kind |-> "raised"]
    ELSE [kind |-> "project",
          project_name |-> Join(project_name),
          project_id |-> Join(ProjectIdOf(IF sheet.ncols > 4
                                          THEN CellText(sheet, 2, 4, <<"P", "0", "0", "1">>)
                                          ELSE <<"P", "0", "0", "1">>)),
          contractor_name |-> Join(IF sheet.nrows > 3 THEN CellText(sheet, 3, 1, <<>>)
                                   ELSE <<>>),
          project_manager |-> Join(IF sheet.nrows > 3 THEN CellText(sheet, 3, 4, <<>>)
                                   ELSE <<>>),
          entries |-> IF sheet.nrows > 6 THEN ColumnLoop(sheet, Join(project_name), 1)
                      ELSE <<>>]

\* what one pass of the sheet loop reads: nothing from a sheet of at most
\* two rows ("short"); iloc[2, 1] raises IndexError on a one-column sheet
ReadSheet(sheet) ==
    IF sheet.nrows <= 2 THEN [kind |-> "short"]
    ELSE IF sheet.ncols < 2 THEN [kind |-> "raised"]
    ELSE ReadNamedSheet(sheet, ProjectNameOf(CellText(sheet, 2, 1, <<>>)))

\* the project_data dictionary handed to add_project. The sheets of the
\* model end before column H, so both dates are today's and the budget is 0.
ImportedProjectData(r, sheet_index, now) ==
    [project_name |-> Text(r.project_name),
     project_id |-> Text(r.project_id),
     parent_category_id |-> NULL,
     executing_company |-> Text("Default Company"),
     consulting_company |-> Text("Abdullah Al-Saeed Engineering Consulting Company"),
     start_date |-> Date(now),
     end_date |-> Date(now),
     total_budget |-> Num(0),
     project_location |-> Text(""),
     project_type |-> Text("Construction Project"),
     project_description |-> Text("Project ID: " \o r.project_id),
     display_order |-> Num(sheet_index),
     contractor_name |-> Text(r.contractor_name),
     project_manager |-> Text(r.project_manager),
     created_date |-> Date(now)]

\* a template sheet with one data column: B3 holds b3, row 7 the date and
\* rows 8 to 12 planned and cumulative values
TemplateSheet(b3, nrows, ncols) ==
    [nrows |-> nrows, ncols |-> ncols,
     grid |-> [rc \in {x \in {<<2, 1>>, <<6, 1>>, <<7, 1>>, <<8, 1>>, <<10, 1>>, <<11, 1>>} :
                         x[1] < nrows /\ x[2] < ncols} |->
                  CASE rc[1] = 2 -> b3
                    [] rc[1] = 6 -> PyTimestamp(Day0 + 6)
                    [] rc[1] \in {7, 8} -> F(<<"4">>, 1)
                    [] OTHER -> F(<<"5">>, 1)]]

\* The uploaded files: a file name, whether pd.ExcelFile can open the
\* content, and the sheets of the workbook in order.
Files ==
    {[name |-> <<"a", ".", "c", "s", "v">>, readable |-> TRUE,
      sheets |-> <<TemplateSheet(PyStr(<<"P", "1">>), 22, 5)>>],
     [name |-> <<"b", ".", "x", "l", "s", "x">>, readable |-> FALSE, sheets |-> <<>>],
     [name |-> <<"c", ".", "x", "l", "s", "x">>, readable |-> TRUE, sheets |-> <<>>],
     [name |-> <<"d", ".", "x", "l", "s", "x">>, readable |-> TRUE,
      sheets |-> <<TemplateSheet(PyStr(<<"P", "1">>), 22, 5)>>],
     [name |-> <<"e", ".", "x", "l", "s">>, readable |-> TRUE,
      sheets |-> <<TemplateSheet(PyNan, 22, 5),
                   TemplateSheet(PyStr(<<"P", "r", "o", "j", "e", "c", "t", ":", " ", "P", "2">>), 3, 2),
                   TemplateSheet(PyStr(<<"P", "1">>), 2, 5)>>],
     [name |-> <<"f", ".", "x", "l", "s", "x">>, readable |-> TRUE,
      sheets |-> <<TemplateSheet(PyStr(Placeholder), 22, 5)>>],
     [name |-> <<"g", ".", "x", "l", "s", "x">>, readable |-> TRUE,
      sheets |-> <<TemplateSheet(PyStr(<<"P", "1">>), 22, 5),
                   TemplateSheet(PyStr(<<"P", "2">>), 22, 4)>>]}

\* ReadSheet of every sheet of the files
SheetResults == [s \in UNION {Range(f.sheets) : f \in Files} |-> ReadSheet(s)]

\* the four tables as one value
Db ==
    [projects |-> projects, progress_data |-> progress_data, resources |-> resources,
     original_excel_files |-> original_excel_files]

\* an import that leaves the stored rows in place
KeepForImport(db) == db

\* DELETE FROM progress_data and DELETE FROM projects only
DeleteProgressAndProjects(db) ==
    [db EXCEPT !.progress_data = <<>>, !.projects = {}]

\* clear_all_data: DELETE FROM progress_data, resources, projects and
\* original_excel_files
DeleteAllRows(db) ==
    [db EXCEPT !.progress_data = <<>>, !.resources = <<>>, !.projects = {},
               !.original_excel_files = <<>>]

\* The rows init_database inserts into parent_categories; the id of a row
\* is its position.
ParentCategories ==
    <<[category_name |-> "Uncategorized",
       description |-> "Projects not yet assigned to a category"],
      [category_name |-> "Sewerage Projects",
       description |-> "Water and sewerage infrastructure projects"],
      [category_name |-> "Water Projects",
       description |-> "Water supply and distribution projects"],
      [category_name |-> "Construction Projects",
       description |-> "General construction and building projects"]>>

\* ORDER BY pc.category_name: NULL first, then the names in alphabetical
\* order (Construction, Sewerage, Uncategorized, Water)
CategoryRank(cell) ==
    IF cell.t = "num" /\ cell.n \in 1..4 THEN <<3, 2, 4, 1>>[cell.n] ELSE 0

\* a sorts before b under ORDER BY pc.category_name, p.display_order,
\* p.created_date DESC
Precedes(a, b) ==
    \/ CategoryRank(a.parent_category_id) < CategoryRank(b.parent_category_id)
    \/ /\ CategoryRank(a.parent_category_id) = CategoryRank(b.parent_category_id)
       /\ \/ a.display_order.n < b.display_order.n
          \/ /\ a.display_order.n = b.display_order.n
             /\ a.created_date.n > b.created_date.n

\* a row of projects LEFT JOINed with its parent category
JoinedRow(r) ==
    [c \in DOMAIN r \cup {"parent_category_name", "parent_category_description"} |->
        IF c \in DOMAIN r THEN r[c]
        ELSE IF CategoryRank(r.parent_category_id) = 0 THEN NULL
        ELSE IF c = "parent_category_name"
          THEN Text(ParentCategories[r.parent_category_id.n].category_name)
        ELSE Text(ParentCategories[r.parent_category_id.n].description)]

RECURSIVE get_all_projects(_)
\* DataManager.get_all_projects: the joined rows in ORDER BY order; rows that
\* the ORDER BY does not separate come in some order
get_all_projects(rows) ==
    IF rows = {} THEN <<>>
    ELSE LET first == CHOOSE r \in rows : \A o \in rows : ~Precedes(o, r)
         IN <<JoinedRow(first)>> \o get_all_projects(rows \ {first})

\* DataManager.get_data_statistics without data_size, the size of the
\* database file
get_data_statistics(db) ==
    [total_projects |-> Cardinality(db.projects),
     total_records |-> Len(db.progress_data) + Len(db.resources)]

\* clear_all_data and clear_original_excel_files before the sheet loop
ClearForImport(db) ==
    [projects |-> {}, progress_data |-> <<>>, resources |-> <<>>,
     original_excel_files |-> <<>>]

\* DataManager.save_original_excel_file: INSERT OR REPLACE, file_hash is
\* UNIQUE; the MD5 hash of a content is written as the content itself
save_original_excel_file(rows, file_name, file_content, projects_imported) ==
    Append(SelectSeq(rows, LAMBDA r : r.file_hash # file_content),
           [file_name |-> file_name, file_content |-> file_content,
            projects_imported |-> CommaJoin(projects_imported),
            file_hash |-> file_content])

\* one pass of the sheet loop: st is the database, success_count,
\* the names in imported_projects, and whether an exception left the loop
ProcessSheet(st, r, sheet_index, now) ==
    CASE r.kind = "raised" -> [st EXCEPT !.raised = TRUE]
      [] r.kind = "project" ->
            [db |-> [st.db EXCEPT
                        !.projects = InsertOrReplaceProject(
                                        @, ImportedProjectData(r, sheet_index, now)),
                        !.progress_data = @ \o r.entries],
             success_count |-> st.success_count + 1,
             imported_projects |-> Append(st.imported_projects, r.project_name),
             raised |-> FALSE]
      [] OTHER -> st

RECURSIVE SheetLoop(_, _, _, _)
\* for sheet_index, sheet_name in enumerate(wb.sheet_names), from sheet i on
SheetLoop(st, sheets, i, now) ==
    IF i > Len(sheets) \/ st.raised THEN st
    ELSE SheetLoop(ProcessSheet(st, SheetResults[sheets[i]], i - 1, now), sheets, i + 1, now)

\* a result with success False and the database it leaves
Failure(db) == [db |-> db, success |-> FALSE, imported_count |-> 0, updated_count |-> 0]

\* the sheet loop of import_project_template ending with the original file
\* saved whatever success_count is
FinishImportAlways(st, f) ==
    IF st.raised THEN Failure(st.db)
    ELSE [db |-> [st.db EXCEPT !.original_excel_files =
                     save_original_excel_file(@, f.name, f.sheets, st.imported_projects)],
          success |-> st.success_count > 0,
          imported_count |-> st.success_count,
          updated_count |-> 0]

\* the end of import_project_template: the outer except branch when the
\* loop raised, else the result dictionary and, after a success, the
\* original file saved
FinishImport(st, f) ==
    IF st.raised THEN Failure(st.db)
    ELSE [db |-> IF st.success_count > 0
                 THEN [st.db EXCEPT !.original_excel_files =
                          save_original_excel_file(@, f.name, f.sheets, st.imported_projects)]
                 ELSE st.db,
          success |-> st.success_count > 0,
          imported_count |-> st.success_count,
          updated_count |-> 0]

\* import_project_template(uploaded_file) on database db: the result
\* dictionary and the database afterwards
ImportResult(db, f, now) ==
    IF ~(EndsWith(f.name, <<".", "x", "l", "s", "x">>) \/ EndsWith(f.name, <<".", "x", "l", "s">>))
      THEN Failure(db)
    ELSE IF ~f.readable THEN Failure(db)
    ELSE IF f.sheets = <<>> THEN Failure(db)
    ELSE FinishImport(SheetLoop([db |-> ClearForImport(db), success_count |-> 0,
                                 imported_projects |-> <<>>, raised |-> FALSE],
                                f.sheets, 1, now), f)

----------------------------------------------------------------------------
\* value of the variables a specification does not use
Idle == [stage |-> "idle"]

\* the database of a fresh DataManager, no call made
EmptyDb ==
    /\ projects = {}
    /\ progress_data = <<>>
    /\ resources = <<>>
    /\ original_excel_files = <<>>
    /\ ret = [op |-> "init"]
    /\ backups = {}

Init ==
    /\ EmptyDb
    /\ spi = Zero /\ cpi = Zero /\ status = "none"
    /\ nt = Idle /\ cl = Idle

\* DataManager.add_project
add_project(pd) ==
    /\ projects' = InsertOrReplaceProject(projects, pd)
    /\ ret' = [op |-> "add_project", project_data |-> pd,
               existed |-> HasProject(projects, pd.project_name.s), value |-> TRUE]
    /\ UNCHANGED <<progress_data, resources, original_excel_files, pureVars, backups>>

\* DataManager.add_progress_data
add_progress_data(p) ==
    /\ Len(progress_data) < MaxProgress
    /\ progress_data' = Append(progress_data, p)
    /\ ret' = [op |-> "add_progress_data", value |-> TRUE]
    /\ UNCHANGED <<projects, resources, original_excel_files, pureVars, backups>>

\* DataManager.add_resource
add_resource(r) ==
    /\ Len(resources) < MaxResources
    /\ resources' = Append(resources, r)
    /\ ret' = [op |-> "add_resource", value |-> TRUE]
    /\ UNCHANGED <<projects, progress_data, original_excel_files, pureVars, backups>>

\* DataManager.update_project_parent_category: UPDATE projects SET ... WHERE
\* project_name = ?; True also when no row has the name
update_project_parent_category(name, new_parent_category_id, new_display_order) ==
    /\ projects' = {IF r.project_name = Text(name)
                    THEN [r EXCEPT !.parent_category_id = Num(new_parent_category_id),
                                   !.display_order = Num(new_display_order)]
                    ELSE r : r \in projects}
    /\ ret' = [op |-> "update_project_parent_category", project_name |-> name,
               value |-> TRUE]
    /\ UNCHANGED <<progress_data, resources, original_excel_files, pureVars, backups>>

\* DataManager.delete_project_progress
delete_project_progress(name) ==
    /\ progress_data' = DeleteWhereName(progress_data, name)
    /\ ret' = [op |-> "delete_project_progress", project_name |-> name,
               rowcount |-> Len(get_progress_data(progress_data, name)),
               value |-> TRUE]
    /\ UNCHANGED <<projects, resources, original_excel_files, pureVars, backups>>

\* DataManager.delete_project: the statements run in one transaction; a
\* statement on a table that does not exist raises, the except branch returns
\* False and the uncommitted deletes are rolled back when the connection goes.
delete_project(name) ==
    LET ok == \A i \in DOMAIN DeleteProjectStatements :
                 DeleteProjectStatements[i] \in Tables
    IN /\ IF ok
          THEN /\ progress_data' = DeleteWhereName(progress_data, name)
               /\ resources' = DeleteWhereName(resources, name)
               /\ projects' = {r \in projects : r.project_name # Text(name)}
          ELSE UNCHANGED <<projects, progress_data, resources>>
       /\ ret' = [op |-> "delete_project", project_name |-> name,
                  existed |-> HasProject(projects, name), value |-> ok]
       /\ UNCHANGED <<original_excel_files, pureVars, backups>>

\* DataManager.clear_all_data
clear_all_data ==
    /\ progress_data' = DeleteAllRows(Db).progress_data
    /\ resources' = DeleteAllRows(Db).resources
    /\ projects' = DeleteAllRows(Db).projects
    /\ original_excel_files' = DeleteAllRows(Db).original_excel_files
    /\ ret' = [op |-> "clear_all_data", before |-> get_data_statistics(Db),
               value |-> TRUE]
    /\ UNCHANGED <<pureVars, backups>>

\* the database and the returned dictionary after an import
StoreImport(r, f) ==
    /\ projects' = r.db.projects
    /\ progress_data' = r.db.progress_data
    /\ resources' = r.db.resources
    /\ original_excel_files' = r.db.original_excel_files
    /\ ret' = [op |-> "import_project_template", file |-> f, before |-> Db,
               success |-> r.success, imported_count |-> r.imported_count,
               updated_count |-> r.updated_count]
    /\ UNCHANGED <<pureVars, backups>>

\* ExcelExporter.import_project_template(f) on the day now
import_project_template(f, now) == StoreImport(ImportResult(Db, f, now), f)

\* A call of DataManager.get_project_info
call_get_project_info(name) ==
    /\ ret' = [op |-> "get_project_info", project_name |-> name,
               value |-> get_project_info(projects, name)]
    /\ UNCHANGED <<dbVars, pureVars, backups>>

\* A call of EVMCalculator.calculate_project_kpi
call_calculate_project_kpi(name) ==
    /\ \E v \in calculate_project_kpi(projects, progress_data, name) :
          ret' = [op |-> "calculate_project_kpi", project_name |-> name, value |-> v]
    /\ UNCHANGED <<dbVars, pureVars, backups>>

Next ==
    \/ \E pd \in ProjectInputs : add_project(pd)
    \/ \E p \in ProgressInputs : add_progress_data(p)
    \/ \E r \in ResourceInputs : add_resource(r)
    \/ \E n \in ProjectNames : delete_project_progress(n)
    \/ \E n \in ProjectNames : delete_project(n)
    \/ clear_all_data
    \/ \E f \in Files : import_project_template(f, Day0 + 90)
    \/ \E n \in ProjectNames : call_get_project_info(n)
    \/ \E n \in ProjectNames : call_calculate_project_kpi(n)

Spec == Init /\ [][Next]_vars

\* the zip file create_backup writes: its member projects.db is a copy of
\* the database file
BackupZip(db) == [zip |-> TRUE, projects_db |-> db]

\* an upload that zipfile.ZipFile cannot open
NotAZip == [zip |-> FALSE]

\* a restore that extracts no member
ExtractNothing(db, backup_zip) == db

\* backup_zip.extractall(self.data_dir): projects.db replaces the database
\* file
ExtractAll(db, backup_zip) == backup_zip.projects_db

\* DataManager.create_backup
create_backup ==
    /\ Cardinality(backups \cup {BackupZip(Db)}) <= MaxBackups
    /\ backups' = backups \cup {BackupZip(Db)}
    /\ ret' = [op |-> "create_backup", value |-> TRUE]
    /\ UNCHANGED <<dbVars, pureVars>>

\* DataManager.restore_backup(uploaded_file): ZipFile raises on a file that
\* is no zip and the except branch returns False; init_database after the
\* extraction finds every table and every default category in place
restore_backup(uploaded_file) ==
    /\ projects' = IF uploaded_file.zip THEN ExtractAll(Db, uploaded_file).projects
                   ELSE projects
    /\ progress_data' = IF uploaded_file.zip
                        THEN ExtractAll(Db, uploaded_file).progress_data
                        ELSE progress_data
    /\ resources' = IF uploaded_file.zip THEN ExtractAll(Db, uploaded_file).resources
                    ELSE resources
    /\ original_excel_files' = IF uploaded_file.zip
                               THEN ExtractAll(Db, uploaded_file).original_excel_files
                               ELSE original_excel_files
    /\ ret' = [op |-> "restore_backup", file |-> uploaded_file, before |-> Db,
               value |-> uploaded_file.zip]
    /\ UNCHANGED <<pureVars, backups>>

\* Backups among the add, delete, clear and import operations on project P1.
NextBackup ==
    \/ add_project(UiProjectData("P1", 100))
    \/ \E p \in {x \in ProgressInputs : x.project_name = "P1" /\ x.entry_date = 1
                                         /\ x.planned_completion = 50} :
          add_progress_data(p)
    \/ \E r \in {x \in ResourceInputs : x.project_name = "P1"} : add_resource(r)
    \/ delete_project_progress("P1")
    \/ delete_project("P1")
    \/ clear_all_data
    \/ \E f \in {x \in Files : x.name[1] \in {"d", "f"}} :
          import_project_template(f, Day0 + 90)
    \/ create_backup
    \/ \E b \in backups \cup {NotAZip} : restore_backup(b)

SpecBackup == Init /\ [][NextBackup]_vars

\* The operations that write project rows: add_project, the import, and the
\* move of a project to category 2 at position 1.
NextProjects ==
    \/ \E pd \in ProjectInputs : add_project(pd)
    \/ \E f \in Files : import_project_template(f, Day0 + 90)
    \/ \E n \in ProjectNames : update_project_parent_category(n, 2, 1)

SpecProjects == Init /\ [][NextProjects]_vars

----------------------------------------------------------------------------
(* Portfolio KPI *)

\* the accumulators before the loop of calculate_portfolio_kpi
NoTotals ==
    [total_pv |-> 0, total_ev |-> 0, total_ac |-> 0, valid_projects |-> 0,
     project_details |-> <<>>]

\* a loop body that keeps the values of the last project only
AccumulateLast(acc, project_kpi) ==
    IF project_kpi.found
    THEN [total_pv |-> project_kpi.pv, total_ev |-> project_kpi.ev,
          total_ac |-> project_kpi.ac, valid_projects |-> acc.valid_projects + 1,
          project_details |-> Append(acc.project_details, project_kpi)]
    ELSE acc

\* the body of the loop over the projects: `if project_kpi:` skips None
Accumulate(acc, project_kpi) ==
    IF project_kpi.found
    THEN [total_pv |-> acc.total_pv + project_kpi.pv,
          total_ev |-> acc.total_ev + project_kpi.ev,
          total_ac |-> acc.total_ac + project_kpi.ac,
          valid_projects |-> acc.valid_projects + 1,
          project_details |-> Append(acc.project_details, project_kpi)]
    ELSE acc

RECURSIVE PortfolioLoop(_, _, _)
\* `for project in projects` from project i on, results[i] being what
\* calculate_project_kpi returned for project i
PortfolioLoop(results, i, acc) ==
    IF i > Len(results) THEN acc
    ELSE PortfolioLoop(results, i + 1, Accumulate(acc, results[i]))

\* status_counts[label] after the loop over project_details
CountStatus(project_details, label) ==
    Len(SelectSeq(project_details, LAMBDA k : k.status = label))

\* the part of calculate_portfolio_kpi after the loop
PortfolioKpi(acc) ==
    IF acc.valid_projects = 0 THEN NoKpi
    ELSE [found |-> TRUE,
          total_projects |-> acc.valid_projects,
          total_pv |-> acc.total_pv, total_ev |-> acc.total_ev,
          total_ac |-> acc.total_ac,
          avg_cpi |-> IF acc.total_ac > 0 THEN Ratio(acc.total_ev, acc.total_ac)
                      ELSE Zero,
          avg_spi |-> IF acc.total_pv > 0 THEN Ratio(acc.total_ev, acc.total_pv)
                      ELSE Zero,
          total_cv |-> acc.total_ev - acc.total_ac,
          total_sv |-> acc.total_ev - acc.total_pv,
          status_counts |-> [ahead |-> CountStatus(acc.project_details, "ahead"),
                             delayed |-> CountStatus(acc.project_details, "delayed"),
                             on_track |-> CountStatus(acc.project_details, "on_track")],
          project_details |-> acc.project_details]

\* EVMCalculator.calculate_portfolio_kpi, given the list get_all_projects
\* returned and the results of the calls of calculate_project_kpi
calculate_portfolio_kpi(all, results) ==
    IF all = <<>> THEN NoKpi
    ELSE PortfolioKpi(PortfolioLoop(results, 1, NoTotals))

\* the results the calls of calculate_project_kpi in the loop can have
ProjectKpis(rows, progress, all) ==
    {results \in [DOMAIN all -> {NoKpi} \cup UNION {calculate_project_kpi(rows, progress, n) : n \in ProjectNames}] :
        \A i \in DOMAIN all :
            results[i] \in calculate_project_kpi(rows, progress, all[i].project_name.s)}

\* A call of EVMCalculator.calculate_portfolio_kpi on the stored data
call_calculate_portfolio_kpi ==
    /\ \E results \in ProjectKpis(projects, progress_data, get_all_projects(projects)) :
          ret' = [op |-> "calculate_portfolio_kpi", stored |-> TRUE,
                  results |-> results,
                  value |-> calculate_portfolio_kpi(get_all_projects(projects), results)]
    /\ UNCHANGED <<dbVars, pureVars, backups>>

\* the records calculate_project_kpi returns for a project whose
\* total_budget reaches it as a number
BudgetKpis(name) ==
    {KpiRecord(name, 100 * k, p) :
        k \in 1..MaxBudgetUnits, p \in {x \in ProgressInputs : x.project_name = name}}

\* lists of projects and the result of calculate_project_kpi for each
KpiLists ==
    {<<>>} \cup {<<a>> : a \in BudgetKpis("P1") \cup {NoKpi}}
           \cup {<<a, b>> : a \in BudgetKpis("P1") \cup {NoKpi},
                            b \in BudgetKpis("P2") \cup {NoKpi}}

\* calculate_portfolio_kpi where calculate_project_kpi returns the given
\* results for the projects of get_all_projects
portfolio_of(results) ==
    /\ ret' = [op |-> "calculate_portfolio_kpi", stored |-> FALSE,
               results |-> results,
               value |-> calculate_portfolio_kpi(results, results)]
    /\ UNCHANGED <<dbVars, pureVars, backups>>

NextPortfolio ==
    \/ \E pd \in ProjectInputs : add_project(pd)
    \/ \E p \in ProgressInputs : add_progress_data(p)
    \/ \E f \in {x \in Files : x.name[1] = "d"} :
          import_project_template(f, Day0 + 90)
    \/ call_calculate_portfolio_kpi
    \/ \E results \in KpiLists : portfolio_of(results)

SpecPortfolio == Init /\ [][NextPortfolio]_vars

----------------------------------------------------------------------------
(* Portfolio cash flow report. Entry dates are day numbers; the ISO date   *)
(* strings SQLite compares order the same way.                             *)

\* p.entry_date BETWEEN ? AND ? with the upper end left out
BetweenExclusive(entry_date, start_date, end_date) ==
    start_date <= entry_date /\ entry_date < end_date

\* p.entry_date BETWEEN ? AND ?
Between(entry_date, start_date, end_date) ==
    start_date <= entry_date /\ entry_date <= end_date

\* DataManager.get_cash_flow_data(None, start_date, end_date): without a
\* project name the query has no WHERE, so the appended AND ... BETWEEN
\* extends the ON condition of the inner join with projects. The ORDER BY
\* is left out: the report groups and sorts the rows anew.
get_cash_flow_data(rows, progress, start_date, end_date) ==
    SelectSeq(progress, LAMBDA p : /\ HasProject(rows, p.project_name)
                                   /\ Between(p.entry_date, start_date, end_date))

RECURSIVE SumOf(_, _)
\* the 'sum' aggregation: the sum of column c over the rows of a frame
SumOf(details, c) ==
    IF details = <<>> THEN 0 ELSE Head(details)[c] + SumOf(Tail(details), c)

\* one row of groupby('entry_date').agg(sum) with the variance column
GroupedRow(data, entry_date) ==
    [entry_date |-> entry_date,
     planned_cost |-> SumOf(SelectSeq(data, LAMBDA p : p.entry_date = entry_date),
                            "planned_cost"),
     actual_cost |-> SumOf(SelectSeq(data, LAMBDA p : p.entry_date = entry_date),
                           "actual_cost"),
     variance |-> SumOf(SelectSeq(data, LAMBDA p : p.entry_date = entry_date),
                        "actual_cost")
                  - SumOf(SelectSeq(data, LAMBDA p : p.entry_date = entry_date),
                          "planned_cost")]

RECURSIVE GroupedData(_, _)
\* the grouped rows of the given dates, sorted by entry_date
GroupedData(data, dates) ==
    IF dates = {} THEN <<>>
    ELSE <<GroupedRow(data, CHOOSE d \in dates : \A o \in dates : d <= o)>>
         \o GroupedData(data, dates \ {CHOOSE d \in dates : \A o \in dates : d <= o})

\* the three cumsum columns added to the grouped rows
Cumulative(grouped) ==
    [i \in DOMAIN grouped |->
        [entry_date |-> grouped[i].entry_date,
         planned_cost |-> grouped[i].planned_cost,
         actual_cost |-> grouped[i].actual_cost,
         variance |-> grouped[i].variance,
         cumulative_planned |-> SumOf(SubSeq(grouped, 1, i), "planned_cost"),
         cumulative_actual |-> SumOf(SubSeq(grouped, 1, i), "actual_cost"),
         cumulative_variance |-> SumOf(SubSeq(grouped, 1, i), "variance")]]

NoReport == [found |-> FALSE]

\* ExcelExporter.generate_portfolio_cash_flow_report on the rows
\* get_cash_flow_data returned
PortfolioReport(cash_flow_data) ==
    IF cash_flow_data = <<>> THEN NoReport
    ELSE [found |-> TRUE,
          rows |-> Cumulative(GroupedData(cash_flow_data,
                                 {cash_flow_data[i].entry_date : i \in DOMAIN cash_flow_data}))]

\* ExcelExporter.generate_portfolio_cash_flow_report
generate_portfolio_cash_flow_report(start_date, end_date) ==
    /\ ret' = [op |-> "generate_portfolio_cash_flow_report",
               start_date |-> start_date, end_date |-> end_date,
               value |-> PortfolioReport(get_cash_flow_data(projects, progress_data,
                                                            start_date, end_date))]
    /\ UNCHANGED <<dbVars, pureVars, backups>>

NextCashFlow ==
    \/ \E n \in ProjectNames : add_project(UiProjectData(n, 100))
    \/ \E p \in ProgressInputs : add_progress_data(p)
    \/ \E n \in ProjectNames : delete_project_progress(n)
    \/ \E n \in ProjectNames : delete_project(n)
    \/ \E start_date, end_date \in 0..MaxDay :
          generate_portfolio_cash_flow_report(start_date, end_date)

SpecCashFlow == Init /\ [][NextCashFlow]_vars

----------------------------------------------------------------------------
(* Template export from the stored original file *)

NoFile == [found |-> FALSE]

\* DataManager.get_latest_original_excel_file: the empty dictionary or the
\* file_name and file_content of the first row under ORDER BY imported_date
\* DESC. imported_date is the time of the INSERT, so that row is the last
\* one inserted.
get_latest_original_excel_file(rows) ==
    IF rows = <<>> THEN NoFile
    ELSE [found |-> TRUE, file_name |-> rows[Len(rows)].file_name,
          file_content |-> rows[Len(rows)].file_content]

\* ws.delete_rows(row_num) for row_num = 30 down to 25: the cells of rows
\* 25 to 30 go and the rows below move up; cell indices are 0-based
RemoveThirdTable(sheet) ==
    [nrows |-> IF sheet.nrows >= 30 THEN sheet.nrows - 6
               ELSE IF sheet.nrows > 24 THEN 24 ELSE sheet.nrows,
     ncols |-> sheet.ncols,
     grid |-> [rc \in {x \in DOMAIN sheet.grid : x[1] < 24}
                    \cup {<<x[1] - 6, x[2]>> : x \in {y \in DOMAIN sheet.grid : y[1] >= 30}} |->
                  IF rc[1] < 24 THEN sheet.grid[rc] ELSE sheet.grid[<<rc[1] + 6, rc[2]>>]]]

\* ExcelExporter.export_project_template on the dictionary
\* get_latest_original_excel_file returned: None without a file, else the
\* workbook saved after _remove_third_table_from_all_sheets. openpyxl loads
\* every stored content, import_project_template having read it with the
\* same engine.
ExportedTemplate(original_file) ==
    IF ~original_file.found \/ original_file.file_content = <<>> THEN NoFile
    ELSE [found |-> TRUE,
          workbook |-> [i \in DOMAIN original_file.file_content |->
                           RemoveThirdTable(original_file.file_content[i])]]

\* ExcelExporter.export_project_template
export_project_template ==
    /\ ret' = [op |-> "export_project_template",
               value |-> ExportedTemplate(
                            get_latest_original_excel_file(original_excel_files))]
    /\ UNCHANGED <<dbVars, pureVars, backups>>

\* DataManager.clear_original_excel_files
clear_original_excel_files ==
    /\ original_excel_files' = <<>>
    /\ ret' = [op |-> "clear_original_excel_files", value |-> TRUE]
    /\ UNCHANGED <<projects, progress_data, resources, pureVars, backups>>

NextExport ==
    \/ add_project(UiProjectData("P2", 100))
    \/ \E f \in Files : import_project_template(f, Day0 + 90)
    \/ clear_all_data
    \/ clear_original_excel_files
    \/ export_project_template
    \/ create_backup
    \/ \E b \in backups \cup {NotAZip} : restore_backup(b)

SpecExport == Init /\ [][NextExport]_vars

----------------------------------------------------------------------------
(* The notes a one-column sheet is imported with, and what                 *)
(* extract_excel_row_data reads back from them.                            *)
MaxExp10 == 16         \* the largest cell values are 2 * 10^MaxExp10

\* cells of the numeric rows
NumCells ==
    {PyNan, F(<<>>, 0), F(<<"1", "2", "5">>, -1), F(<<"1", "3">>, -4), F(<<"7">>, 0),
     F(<<"4", "5">>, 3), F(<<"1", "5">>, -8), PyFloat(TRUE, <<"3">>, 0),
     PyStr(<<"5", "0", "%">>), PyStr(<<"1", ",", "0", "0", "0">>),
     PyStr(<<"a", "b", "c">>), PyStr(<<"i", "n", "f">>), PyStr(<<"n", "a", "n">>),
     PyTimestamp(Day0 + 14)}
        \cup {F(<<d>>, e) : d \in {"1", "2"}, e \in 14..MaxExp10}

\* cells of the date rows 17 and 20
DateCells ==
    {PyNan, PyTimestamp(Day0 + 14), F(<<"4", "5", "3", "0", "6">>, 0), F(<<>>, 0),
     F(<<"5">>, 0), PyStr(<<"2", "0", "2", "4", "-", "0", "1", "-", "1", "5">>)}

NumericRows == {7, 8, 9, 10, 11, 12, 13, 18, 19, 21, 22}

\* the 0-based sheet row that the value of notes key Rk is read from
SourceRow(k) == IF k \in 7..13 THEN k ELSE k - 1

\* a sheet with one data column: the cell of key k holds a, the cells of the
\* other numeric keys hold b, those of the other date keys bd
NoteSheet(k, a, b, bd) ==
    [nrows |-> 22, ncols |-> 5,
     grid |-> [rc \in {<<6, 1>>} \cup {<<SourceRow(j), 1>> : j \in Range(NoteRows)} |->
                  IF rc[1] = 6 THEN PyTimestamp(Day0 + 6)
                  ELSE IF rc[1] = SourceRow(k) THEN a
                  ELSE IF rc[1] \in {16, 19} THEN bd
                  ELSE b]]

InitNotes ==
    /\ EmptyDb
    /\ spi = Zero /\ cpi = Zero /\ status = "none"
    /\ cl = Idle
    /\ \E k \in Range(NoteRows),
          b \in {PyNan, F(<<"7">>, 0), F(<<"1", "2", "5">>, -1)},
          bd \in {PyNan, PyTimestamp(Day0 + 14), F(<<"4", "5", "3", "0", "6">>, 0)} :
          \E a \in IF k \in NumericRows THEN NumCells ELSE DateCells :
             nt = [stage |-> "sheet", sheet |-> NoteSheet(k, a, b, bd)]

\* import_project_template reads the column and writes the notes
import_column ==
    /\ nt.stage = "sheet"
    /\ nt' = [stage |-> "imported", entry |-> ImportEntry(nt.sheet, 1)]
    /\ UNCHANGED <<dbVars, backups, ret, statusVars, cl>>

\* extract_excel_row_data(notes, row) on the notes of the saved entry
read_row(row) ==
    /\ nt.stage = "imported"
    /\ nt.entry.kind = "saved"
    /\ nt' = [stage |-> "read", entry |-> nt.entry, row |-> row,
              value |-> extract_excel_row_data(nt.entry.notes, row)]
    /\ UNCHANGED <<dbVars, backups, ret, statusVars, cl>>

NextNotes ==
    \/ import_column
    \/ \E row \in Range(NoteRows) : read_row(row)

SpecNotes == InitNotes /\ [][NextNotes]_vars

----------------------------------------------------------------------------
(* extract_excel_row_data on notes of any origin: text typed into the      *)
(* progress forms, with or without something that looks like a key.        *)
\* Notes are a text p before the key, the key k or none, the text v after
\* it and an ending x; the progress form appends a remark and a time stamp.
FreeNotes ==
    {p \o k \o v \o x :
        p \in {<<>>,
             <<"R", "1", "7", ":", "9", "|">>,
             <<"s", "e", "e", " ">>},
        k \in {<<"R", "7", ":">>,
             <<"R", "1", "7", ":">>,
             <<"R", "2", "0", ":">>,
             <<"R", "1", ":">>,
             <<>>},
        v \in {<<>>,
             <<" ">>,
             <<"0">>,
             <<"0", ".", "0">>,
             <<"1", "2", ".", "5">>,
             <<"-">>,
             <<"emdash">>,
             <<"n", "/", "a">>,
             <<"n", "u", "l", "l">>,
             <<"N", "o", "n", "e">>,
             <<"N", "a", "N">>,
             <<"a", "b", "c">>,
             <<"4", "5", "0", "0", "0", ".", "5">>,
             <<"2", "0", "2", "4", "-", "0", "1", "-", "1", "5">>,
             <<"n", "o", "t", "-", "a", "-", "d", "a", "t", "e">>,
             <<"5", "0", "%">>,
             <<"x", "%">>,
             <<"1", ",", "0", "0", "0">>,
             <<"1", "e", "1", "6">>,
             <<"i", "n", "f">>,
             <<"-", "n", "a", "n">>,
             <<"ar3", "ar4">>,
             <<"4", ".", "5", ".", "0">>},
        x \in {<<>>,
             <<" ", "|", "R", "8", ":", "1">>,
             <<" ", "(", "u", "i", " ", "-", " ", "2", "0", "2", "4", "-", "0", "1", "-", "1", "5", " ", "1", "0", ":", "3", "0", ")">>}}

InitFree ==
    /\ EmptyDb
    /\ spi = Zero /\ cpi = Zero /\ status = "none"
    /\ cl = Idle
    /\ \E n \in FreeNotes, r \in {1, 7, 17, 20} : nt = [stage |-> "free", notes |-> n, row |-> r]

\* extract_excel_row_data(notes, row)
read_free ==
    /\ nt.stage = "free"
    /\ nt' = [stage |-> "read_free", notes |-> nt.notes, row |-> nt.row,
              value |-> extract_excel_row_data(nt.notes, nt.row)]
    /\ UNCHANGED <<dbVars, backups, ret, statusVars, cl>>

SpecFree == InitFree /\ [][read_free]_vars

----------------------------------------------------------------------------
(* The date-nearest lookups of the weekly and monthly resource tables.     *)
Abs(x) == IF x < 0 THEN -x ELSE x

\* closest_value, closest_distance and closest_date before the loop;
\* distance -1 stands for float('inf'), date -1 for None. done is set when
\* the monthly loop breaks.
NoBest == [value |-> PyNone, distance |-> -1, date |-> -1, done |-> FALSE]

\* the update rule without its tie-breaker
should_update_closer_only(distance, actual_date, best) ==
    best.distance = -1 \/ distance < best.distance

\* should_update of both loops
should_update(distance, actual_date, best) ==
    \/ best.distance = -1 \/ distance < best.distance
    \/ /\ distance = best.distance /\ best.date # -1
       /\ actual_date > best.date

\* target_date = period_start + (period_end - period_start) / 2; adding a
\* timedelta to a date keeps its whole days
TargetDate(period_start, period_end) == period_start + (period_end - period_start) \div 2

\* the weekly loop body once value and actual_date are known
WeeklyUpdate(best, value, actual_date, target_date) ==
    IF ~actual_date.ok THEN best
    ELSE IF should_update(Abs(target_date - actual_date.serial), actual_date.serial, best)
      THEN [value |-> value, distance |-> Abs(target_date - actual_date.serial),
            date |-> actual_date.serial, done |-> FALSE]
    ELSE best

\* actual_date, with the entry_date fallback
WeeklyDate(actual_date, row) ==
    IF actual_date.ok THEN actual_date
    ELSE parse_excel_maybe_date(PyStr(row.entry_date))

\* the weekly loop body for one row; value is never a string for the value
\* rows 18 and 19, so float(value) is value
WeeklyRow(best, row, value, target_date, date_row) ==
    IF value.k = "None" THEN best
    ELSE WeeklyUpdate(best, value,
                      WeeklyDate(parse_excel_maybe_date(
                                     extract_excel_row_data(row.notes, date_row)), row),
                      target_date)

RECURSIVE WeeklyScan(_, _, _, _, _, _)
\* for _, row in progress_data.iterrows()
WeeklyScan(rows, i, best, target_date, value_row, date_row) ==
    IF i > Len(rows) THEN best
    ELSE WeeklyScan(rows, i + 1,
                    WeeklyRow(best, rows[i], extract_excel_row_data(rows[i].notes, value_row),
                              target_date, date_row),
                    target_date, value_row, date_row)

\* get_closest_weekly_value
get_closest_weekly_value(frame, period_start, period_end, value_row, date_row) ==
    IF frame = <<>> THEN PyNone
    ELSE WeeklyScan(frame, 1, NoBest, TargetDate(period_start, period_end),
                    value_row, date_row).value

\* 12 * year + month of a day
MonthIndex(serial) == 12 * CivilFromDays(serial).year + CivilFromDays(serial).month

\* the monthly loop body once the date of the row is known
MonthlyUpdate(best, value, date, month_distance) ==
    IF month_distance = 0
      THEN [value |-> value, distance |-> 0, date |-> best.date, done |-> TRUE]
    ELSE IF should_update(month_distance, date, best)
      THEN [value |-> value, distance |-> month_distance, date |-> date, done |-> FALSE]
    ELSE best

\* a date that strptime could not read skips the row
MonthlyParsed(best, value, d, target_date) ==
    IF ~d.ok THEN best
    ELSE MonthlyUpdate(best, value, d.serial,
                       Abs(MonthIndex(target_date) - MonthIndex(d.serial)))

\* the monthly loop body for one row: the branches on date_value
MonthlyRow(best, row, value, date_value, target_date) ==
    IF value.k = "None" THEN best
    ELSE IF date_value.k = "None" \/ IsZero(date_value)
      THEN MonthlyParsed(best, value, strptime(row.entry_date), target_date)
    ELSE IF date_value.k = "str"
      THEN MonthlyParsed(best, value, strptime(date_value.s), target_date)
    ELSE best

RECURSIVE MonthlyScan(_, _, _, _, _, _)
\* for _, row in progress_data.iterrows(), left by break on a month match
MonthlyScan(rows, i, best, target_date, value_row, date_row) ==
    IF i > Len(rows) \/ best.done THEN best
    ELSE MonthlyScan(rows, i + 1,
                     MonthlyRow(best, rows[i],
                                extract_excel_row_data(rows[i].notes, value_row),
                                extract_excel_row_data(rows[i].notes, date_row),
                                target_date),
                     target_date, value_row, date_row)

\* get_closest_monthly_value
get_closest_monthly_value(frame, period_start, period_end, value_row, date_row) ==
    IF frame = <<>> THEN PyNone
    ELSE MonthlyScan(frame, 1, NoBest, TargetDate(period_start, period_end),
                     value_row, date_row).value

MaxRows == 2   \* rows of the DataFrame

EntryDays == {Day0 + 31, Day0 + 59}    \* 2024-02-01, 2024-02-29

\* A row of the DataFrame of an imported entry. entry_date and notes are
\* the columns the lookups read; day, date, count and carries record what
\* the row was written from.
ImportedRow(day, date, count) ==
    [entry_date |-> strftime(day),
     notes |-> NotesOf([k \in Range(NoteRows) |->
                           CASE k \in {17, 20} -> StoredDate(date)
                             [] k \in {18, 19, 21, 22} -> StoredCount(count)
                             [] OTHER -> F(<<"7">>, 0)]),
     day |-> day, date |-> date, count |-> StoredCount(count), carries |-> TRUE]

\* a row typed into the progress form, its notes without any key
TypedRow(day) ==
    [entry_date |-> strftime(day), notes |-> <<"o", "k">>,
     day |-> day, date |-> PyNone, count |-> PyNone, carries |-> FALSE]

\* The rows: find_resource_data_smart found no date, the Timestamp
\* 2024-01-31 or the serial number of 2024-03-01, and no count or 5.
FrameRows ==
    {ImportedRow(d, dt, c) :
        d \in EntryDays,
        dt \in {PyNone, PyTimestamp(Day0 + 30), F(IntToStr(Day0 + 60), 0)},
        c \in {PyNone, F(<<"5">>, 0)}}
        \cup {TypedRow(d) : d \in EntryDays}

\* get_progress_data returns the rows ORDER BY entry_date; rows of one
\* entry_date come in any order
Frames ==
    {f \in UNION {[1..n -> FrameRows] : n \in 0..MaxRows} :
        \A i \in 1..(Len(f) - 1) : f[i].day <= f[i + 1].day}

\* period_start and period_end of a table column
Periods ==
    {<<Day0, Day0 + 30>>,          \* January, midpoint 2024-01-16
     <<Day0 + 42, Day0 + 49>>,     \* midpoint 2024-02-15
     <<Day0 + 56, Day0 + 62>>}     \* midpoint 2024-02-29

InitClosest ==
    /\ EmptyDb
    /\ spi = Zero /\ cpi = Zero /\ status = "none"
    /\ nt = Idle
    /\ \E f \in Frames : cl = [stage |-> "frame", rows |-> f]

\* a cell of the weekly table
weekly_lookup(p, value_row) ==
    /\ cl.stage = "frame"
    /\ cl' = [stage |-> "weekly", rows |-> cl.rows, period |-> p, value_row |-> value_row,
              result |-> get_closest_weekly_value(cl.rows, p[1], p[2], value_row, 17)]
    /\ UNCHANGED <<dbVars, backups, ret, statusVars, nt>>

\* a cell of the monthly table
monthly_lookup(p, value_row) ==
    /\ cl.stage = "frame"
    /\ cl' = [stage |-> "monthly", rows |-> cl.rows, period |-> p, value_row |-> value_row,
              result |-> get_closest_monthly_value(cl.rows, p[1], p[2], value_row, 20)]
    /\ UNCHANGED <<dbVars, backups, ret, statusVars, nt>>

NextClosest ==
    \/ \E p \in Periods, value_row \in {18, 19} : weekly_lookup(p, value_row)
    \/ \E p \in Periods, value_row \in {21, 22} : monthly_lookup(p, value_row)

SpecClosest == InitClosest /\ [][NextClosest]_vars

----------------------------------------------------------------------------
(* _determine_project_status on its own: the arguments are drawn from a    *)
(* grid of fractions around the thresholds 0.9 and 1.0.                    *)
Ratios == {Ratio(n, d) : n \in 0..MaxNum, d \in 1..MaxDen}

InitStatus ==
    /\ EmptyDb
    /\ spi \in Ratios /\ cpi \in Ratios /\ status = "none"
    /\ nt = Idle /\ cl = Idle

determine_status ==
    /\ status = "none"
    /\ status' = _determine_project_status(spi, cpi)
    /\ UNCHANGED <<dbVars, backups, ret, spi, cpi, nt, cl>>

SpecStatus == InitStatus /\ [][determine_status]_vars

----------------------------------------------------------------------------
(* Claims *)

\* C1: after delete_project(p) for an existing project p no row of p is left
\* in projects, progress_data or resources, and the call returned True.
C1_DeleteProjectRemovesAll ==
    (ret.op = "delete_project" /\ ret.existed) =>
        /\ ret.value = TRUE
        /\ ~HasProject(projects, ret.project_name)
        /\ get_progress_data(progress_data, ret.project_name) = <<>>
        /\ SelectSeq(resources, LAMBDA r : r.project_name = ret.project_name) = <<>>

\* C2: after add_project(d), get_project_info(d.project_name) returns a
\* record whose nine fields equal the values passed to add_project.
C2_AddGetRoundTrip ==
    ret.op = "add_project" =>
        LET res == get_project_info(projects, ret.project_data.project_name.s)
        IN /\ res.found
           /\ \A f \in ProjectDataFields : InfoField(res, f) = ret.project_data[f]

\* C3: for a stored project with budget B and at least one progress entry,
\* calculate_project_kpi returns the EVM figures of an entry of the greatest
\* entry_date: pv = B*p/100, ev = B*a/100, ac = c, cpi = ev/ac or 0,
\* spi = ev/pv or 0, cv = ev - ac, sv = ev - pv.
C3_KpiOfLatestEntry ==
    (/\ ret.op = "calculate_project_kpi"
     /\ HasProject(projects, ret.project_name)
     /\ get_progress_data(progress_data, ret.project_name) # <<>>) =>
        LET r == CHOOSE x \in projects : x.project_name = Text(ret.project_name)
            B == r.total_budget.n
            k == ret.value
        IN /\ k.found
           /\ \E e \in LatestRows(get_progress_data(progress_data, ret.project_name)) :
                 /\ k.pv * 100 = B * e.planned_completion
                 /\ k.ev * 100 = B * e.actual_completion
                 /\ k.ac = e.actual_cost
                 /\ IF k.ac > 0 THEN k.cpi.num * k.ac = k.ev * k.cpi.den
                                ELSE k.cpi.num = 0
                 /\ IF k.pv > 0 THEN k.spi.num * k.pv = k.ev * k.spi.den
                                ELSE k.spi.num = 0
                 /\ k.cv = k.ev - k.ac
                 /\ k.sv = k.ev - k.pv

\* C4: _determine_project_status is a total three-way classification:
\* "ahead" exactly when spi >= 1.0 and cpi >= 1.0, "on_track" exactly when
\* that fails and spi >= 0.9 and cpi >= 0.9, "delayed" in every other case.
C4_StatusClassification ==
    status # "none" =>
        LET ahead == spi.num >= spi.den /\ cpi.num >= cpi.den
            close == 10 * spi.num >= 9 * spi.den /\ 10 * cpi.num >= 9 * cpi.den
        IN /\ status \in {"ahead", "on_track", "delayed"}
           /\ (status = "ahead") <=> ahead
           /\ (status = "on_track") <=> (~ahead /\ close)
           /\ (status = "delayed") <=> (~ahead /\ ~close)

\* C4 witness: SPI exactly 0.9 with CPI above 1 has been classified on track.
C4_Witness == status = "on_track" /\ spi = Ratio(9, 10) /\ cpi = Ratio(11, 10)

IsFinite(v) == v.k \in {"int", "float"}

\* C5: for the notes the import writes, extract_excel_row_data(notes, k)
\* returns the number that was written under key Rk, for every numeric row k.
C5_NotesRoundTrip ==
    (nt.stage = "read" /\ nt.row \in NumericRows /\ IsFinite(nt.entry.fields[nt.row]))
        => NumEq(nt.value, nt.entry.fields[nt.row])

\* C5 as amended: the same for every number of magnitude at most 10^15.
C5_NotesRoundTripUpTo1e15 ==
    (/\ nt.stage = "read" /\ nt.row \in NumericRows
     /\ IsFinite(nt.entry.fields[nt.row])
     /\ ~AbsGreater(nt.entry.fields[nt.row], PyFloat(FALSE, <<"1">>, 15)))
        => NumEq(nt.value, nt.entry.fields[nt.row])

\* C5 witness: 12.5 was read back from under R18 although R8 holds 7.0 and
\* R17 a date string.
C5_Witness ==
    /\ nt.stage = "read" /\ nt.row = 18
    /\ nt.entry.fields[18] = F(<<"1", "2", "5">>, -1)
    /\ nt.entry.fields[8] = F(<<"7">>, 0)
    /\ nt.entry.fields[17].k = "str"
    /\ nt.value = F(<<"1", "2", "5">>, -1)

\* C6: for every notes string and row number extract_excel_row_data raises
\* nothing and returns None, a number, or (rows 17 and 20 only) a date string.
C6_ExtractResultKinds ==
    nt.stage = "read_free" =>
        /\ nt.value.k # "error"
        /\ \/ nt.value.k \in {"None", "int", "float", "inf", "nan"}
           \/ /\ nt.value.k = "str"
              /\ nt.row \in {17, 20}
              /\ strptime(nt.value.s).ok

----------------------------------------------------------------------------
(* The rows a lookup chooses among *)
\* the rows that carry a value for the value row
Carrying(rows) == {i \in DOMAIN rows : rows[i].carries}

\* the date of a row: its date-row date, or entry_date when the import
\* found no date
RowDate(r) ==
    IF r.date.k = "ts" THEN r.date.e
    ELSE IF r.date.k = "float" THEN Trunc(r.date)
    ELSE r.day

\* C7: get_closest_weekly_value returns None when no row carries a value,
\* and otherwise the value of a carrying row whose date has the smallest
\* distance in days to the midpoint of the period and, among the rows at
\* that distance, the latest date; a value of zero is returned as 0.
C7_WeeklyClosest ==
    cl.stage = "weekly" =>
        LET rows == cl.rows
            t == TargetDate(cl.period[1], cl.period[2])
            dist(i) == Abs(t - RowDate(rows[i]))
        IN IF Carrying(rows) = {} THEN cl.result = PyNone
           ELSE \E i \in Carrying(rows) :
                   /\ NumEq(cl.result, rows[i].count)
                   /\ \A j \in Carrying(rows) :
                         \/ dist(i) < dist(j)
                         \/ dist(i) = dist(j) /\ RowDate(rows[j]) <= RowDate(rows[i])

\* a tie in days, the later date in the earlier row, and its value returned
C7_Witness ==
    /\ cl.stage = "weekly"
    /\ \E i, j \in Carrying(cl.rows) :
          /\ i < j
          /\ RowDate(cl.rows[i]) > RowDate(cl.rows[j])
          /\ Abs(TargetDate(cl.period[1], cl.period[2]) - RowDate(cl.rows[i]))
                = Abs(TargetDate(cl.period[1], cl.period[2]) - RowDate(cl.rows[j]))
          /\ \A k \in Carrying(cl.rows) : k \in {i, j}
          /\ ~NumEq(cl.rows[i].count, cl.rows[j].count)
          /\ NumEq(cl.result, cl.rows[i].count)

\* C8: get_closest_monthly_value returns None only when no row carries a
\* value; the value of a carrying row dated in the month of the midpoint
\* when there is one; and otherwise the value of a carrying row at the
\* smallest distance in months, the latest date among those.
C8_MonthlyClosest ==
    cl.stage = "monthly" =>
        LET rows == cl.rows
            t == TargetDate(cl.period[1], cl.period[2])
            dist(i) == Abs(MonthIndex(t) - MonthIndex(RowDate(rows[i])))
        IN IF Carrying(rows) = {} THEN cl.result = PyNone
           ELSE IF \E i \in Carrying(rows) : dist(i) = 0
             THEN \E i \in Carrying(rows) : dist(i) = 0 /\ NumEq(cl.result, rows[i].count)
           ELSE \E i \in Carrying(rows) :
                   /\ NumEq(cl.result, rows[i].count)
                   /\ \A j \in Carrying(rows) :
                         \/ dist(i) < dist(j)
                         \/ dist(i) = dist(j) /\ RowDate(rows[j]) <= RowDate(rows[i])

\* the valid project names in B3 of the sheets of file f: the text after
\* the first colon, neither empty nor the template's placeholder
ValidNames(f) ==
    {Join(n) : n \in {ProjectNameOf(CellText(f.sheets[i], 2, 1, <<>>)) :
                         i \in {j \in DOMAIN f.sheets :
                                   f.sheets[j].nrows > 2 /\ f.sheets[j].ncols > 1}}
                     \ {<<>>, Placeholder}}

\* the progress entries the sheets of file f hold
FileEntries(f) == UNION {Range(SheetResults[f.sheets[i]].entries) :
                            i \in {j \in DOMAIN f.sheets :
                                      SheetResults[f.sheets[j]].kind = "project"}}

\* C9: after an import that reports success the stored project names are
\* exactly the valid B3 names of the file, every progress entry is one of
\* the file, no resource is stored, the only original-file record is that of
\* the file, and updated_count is 0.
C9_ImportReplacesAll ==
    (ret.op = "import_project_template" /\ ret.success) =>
        /\ {r.project_name : r \in projects} = {Text(n) : n \in ValidNames(ret.file)}
        /\ \A i \in DOMAIN progress_data : progress_data[i] \in FileEntries(ret.file)
        /\ resources = <<>>
        /\ \A i \in DOMAIN original_excel_files :
              /\ original_excel_files[i].file_name = ret.file.name
              /\ original_excel_files[i].file_content = ret.file.sheets
        /\ ret.updated_count = 0

\* a successful import into a database that held a project the file does
\* not name, a progress entry, a resource and the record of another file
C9_Witness ==
    /\ ret.op = "import_project_template" /\ ret.success
    /\ \E r \in ret.before.projects : r.project_name \notin {Text(n) : n \in ValidNames(ret.file)}
    /\ \E i \in DOMAIN ret.before.progress_data :
          ret.before.progress_data[i] \notin FileEntries(ret.file)
    /\ ret.before.resources # <<>>
    /\ \E i \in DOMAIN ret.before.original_excel_files :
          ret.before.original_excel_files[i].file_name # ret.file.name
    /\ progress_data # <<>>

\* C10: when import_project_template returns success = False, imported_count
\* is 0 and the projects, progress entries and resources are those stored
\* before the call.
C10_FailureLeavesData ==
    (ret.op = "import_project_template" /\ ~ret.success) =>
        /\ ret.imported_count = 0
        /\ projects = ret.before.projects
        /\ progress_data = ret.before.progress_data
        /\ resources = ret.before.resources

\* C11: there is at most one project row per project_name, and add_project
\* returns True and leaves, under the name it was given, exactly the row
\* built from its project_data.
C11_OneRowPerName ==
    /\ \A r1, r2 \in projects : r1.project_name = r2.project_name => r1 = r2
    /\ ret.op = "add_project" =>
          /\ ret.value = TRUE
          /\ \A r \in projects :
                r.project_name = ret.project_data.project_name =>
                    \A c \in DOMAIN ret.project_data : r[c] = ret.project_data[c]

\* add_project with the name of a stored imported project: the row of that
\* name is now the one of the form
C11_Witness ==
    /\ ret.op = "add_project" /\ ret.existed
    /\ \E r \in projects :
          /\ r.project_name = ret.project_data.project_name
          /\ r.total_budget = Num(200)
    /\ original_excel_files # <<>>

\* C12: every progress_data row and every resources row has a project_name
\* that names a stored project.
C12_ReferentialIntegrity ==
    /\ \A i \in DOMAIN progress_data : HasProject(projects, progress_data[i].project_name)
    /\ \A i \in DOMAIN resources : HasProject(projects, resources[i].project_name)

\* C13: after clear_all_data has returned True the four tables are empty,
\* get_all_projects returns an empty list and get_data_statistics reports
\* total_projects = 0 and total_records = 0.
C13_ClearAllData ==
    (ret.op = "clear_all_data" /\ ret.value) =>
        /\ projects = {} /\ progress_data = <<>> /\ resources = <<>>
        /\ original_excel_files = <<>>
        /\ get_all_projects(projects) = <<>>
        /\ get_data_statistics(Db).total_projects = 0
        /\ get_data_statistics(Db).total_records = 0

\* clear_all_data on a database of two projects and three records
C13_Witness ==
    /\ ret.op = "clear_all_data" /\ ret.value
    /\ ret.before.total_projects = 2 /\ ret.before.total_records = 3
    /\ projects = {}

\* C14: a step of delete_project_progress(p) leaves no progress entry of p,
\* and leaves the projects, the resources and the progress entries of every
\* other project as they were.
C14_DeleteProgressOnly ==
    [][ret'.op = "delete_project_progress" =>
          /\ \A i \in DOMAIN progress_data' :
                progress_data'[i].project_name # ret'.project_name
          /\ progress_data' =
                SelectSeq(progress_data, LAMBDA r : r.project_name # ret'.project_name)
          /\ projects' = projects
          /\ resources' = resources
          /\ original_excel_files' = original_excel_files]_vars

\* delete_project_progress(p) has deleted an entry of p; the project row and
\* a resource of p and a progress entry of another project are stored
C14_Witness ==
    /\ ret.op = "delete_project_progress" /\ ret.rowcount > 0
    /\ HasProject(projects, ret.project_name)
    /\ \E i \in DOMAIN resources : resources[i].project_name = ret.project_name
    /\ \E i \in DOMAIN progress_data : progress_data[i].project_name # ret.project_name

\* C15: when restore_backup has returned True for a backup file, the stored
\* projects, progress entries, resources and original files are those of the
\* database state the backup was created in.
C15_BackupRoundTrip ==
    (ret.op = "restore_backup" /\ ret.value) =>
        /\ ret.file \in backups
        /\ projects = ret.file.projects_db.projects
        /\ progress_data = ret.file.projects_db.progress_data
        /\ resources = ret.file.projects_db.resources
        /\ original_excel_files = ret.file.projects_db.original_excel_files

\* a restore that brought back a project, a progress entry and a resource
\* into a database that an import had replaced
C15_Witness ==
    /\ ret.op = "restore_backup" /\ ret.value
    /\ ret.before.original_excel_files # <<>>
    /\ ret.before.resources = <<>>
    /\ projects # {} /\ progress_data # <<>> /\ resources # <<>>
    /\ original_excel_files = <<>>

\* the results of calculate_project_kpi that are records, in call order
RecordsOf(results) == SelectSeq(results, LAMBDA k : k.found)

\* C16: a call of calculate_portfolio_kpi on the stored data asks
\* calculate_project_kpi once for every stored project. Whatever these calls
\* return, the result is None when none of them is a record (in particular
\* when there is no project); otherwise total_projects is the number of
\* records, project_details holds each record once, total_pv, total_ev and
\* total_ac are the sums of their pv, ev and ac, and the three status_counts
\* add up to total_projects.
C16_PortfolioAggregates ==
    ret.op = "calculate_portfolio_kpi" =>
        /\ ret.stored =>
              /\ Len(ret.results) = Cardinality(projects)
              /\ \A r \in projects :
                    \E i \in DOMAIN ret.results :
                       ret.results[i] \in
                          calculate_project_kpi(projects, progress_data,
                                                r.project_name.s) \ {NoKpi}
                       \/ /\ ret.results[i] = NoKpi
                          /\ NoKpi \in calculate_project_kpi(projects, progress_data,
                                                             r.project_name.s)
        /\ IF RecordsOf(ret.results) = <<>> THEN ret.value = NoKpi
           ELSE /\ ret.value.found
                /\ ret.value.total_projects = Len(RecordsOf(ret.results))
                /\ ret.value.project_details = RecordsOf(ret.results)
                /\ ret.value.total_pv = SumOf(RecordsOf(ret.results), "pv")
                /\ ret.value.total_ev = SumOf(RecordsOf(ret.results), "ev")
                /\ ret.value.total_ac = SumOf(RecordsOf(ret.results), "ac")
                /\ ret.value.status_counts.ahead + ret.value.status_counts.delayed
                      + ret.value.status_counts.on_track = ret.value.total_projects

\* two projects with KPI records of different values, one of each status,
\* have been aggregated
C16_Witness ==
    /\ ret.op = "calculate_portfolio_kpi"
    /\ ret.value.found
    /\ ret.value.total_projects = 2
    /\ ret.value.project_details[1].pv # ret.value.project_details[2].pv
    /\ ret.value.status_counts.ahead = 1 /\ ret.value.status_counts.delayed = 1
    /\ ret.value.total_pv > 0 /\ ret.value.total_ac > 0

\* the progress entries of existing projects dated within the range of the
\* last report, as positions in progress_data
EntriesInRange ==
    {i \in DOMAIN progress_data :
        /\ \E r \in projects : r.project_name = Text(progress_data[i].project_name)
        /\ ret.start_date <= progress_data[i].entry_date
        /\ progress_data[i].entry_date <= ret.end_date}

RECURSIVE SumEntries(_, _)
\* the sum of column c over the progress entries at the positions idx
SumEntries(idx, c) ==
    IF idx = {} THEN 0
    ELSE LET i == CHOOSE x \in idx : TRUE
         IN progress_data[i][c] + SumEntries(idx \ {i}, c)

\* C17: when some progress entry of an existing project is dated within
\* [start_date, end_date], generate_portfolio_cash_flow_report returns a
\* frame with exactly one row for each entry_date of such entries, whose
\* planned_cost and actual_cost are the sums over these entries of that date.
C17_PortfolioCashFlow ==
    (ret.op = "generate_portfolio_cash_flow_report" /\ EntriesInRange # {}) =>
        /\ ret.value.found
        /\ Len(ret.value.rows) =
              Cardinality({progress_data[i].entry_date : i \in EntriesInRange})
        /\ \A i \in EntriesInRange :
              \E k \in DOMAIN ret.value.rows :
                 /\ ret.value.rows[k].entry_date = progress_data[i].entry_date
                 /\ ret.value.rows[k].planned_cost =
                       SumEntries({j \in EntriesInRange :
                                      progress_data[j].entry_date = progress_data[i].entry_date},
                                  "planned_cost")
                 /\ ret.value.rows[k].actual_cost =
                       SumEntries({j \in EntriesInRange :
                                      progress_data[j].entry_date = progress_data[i].entry_date},
                                  "actual_cost")

\* a report over two projects with an entry each on the last day of the
\* range, summed into one row
C17_Witness ==
    /\ ret.op = "generate_portfolio_cash_flow_report"
    /\ ret.start_date < ret.end_date
    /\ Cardinality(EntriesInRange) = 2
    /\ \A i \in EntriesInRange : progress_data[i].entry_date = ret.end_date
    /\ {progress_data[i].project_name : i \in EntriesInRange} = ProjectNames
    /\ ret.value.found
    /\ Len(ret.value.rows) = 1
    /\ ret.value.rows[1].planned_cost = 140

\* the step is an import that reported success
SuccessfulImport == ret'.op = "import_project_template" /\ ret'.success

\* the steps of C18 that do not depend on how a file comes to be stored:
\* an export without a stored file returns None, both clear operations leave
\* no file stored, and after a successful import
\* get_latest_original_excel_file returns the content of the imported file
ExportSteps ==
    /\ (ret'.op = "export_project_template" /\ original_excel_files' = <<>>) =>
          ret'.value = NoFile
    /\ ret'.op \in {"clear_all_data", "clear_original_excel_files"} =>
          original_excel_files' = <<>>
    /\ SuccessfulImport =>
          /\ get_latest_original_excel_file(original_excel_files').found
          /\ get_latest_original_excel_file(original_excel_files').file_content
                = ret'.file.sheets
          /\ get_latest_original_excel_file(original_excel_files').file_name
                = ret'.file.name

\* C18 as stated: no original file is stored at the start; export returns
\* None whenever none is stored; clear_all_data and
\* clear_original_excel_files leave none stored; only a step that is an
\* import reporting success stores one; and after such an import
\* get_latest_original_excel_file returns the imported content.
C18_ImportExportOrdering ==
    /\ original_excel_files = <<>>
    /\ [][/\ ExportSteps
          /\ (original_excel_files' # <<>> /\ original_excel_files' # original_excel_files)
                => SuccessfulImport]_vars

\* C18 with restore_backup: the same, except that a file also comes to be
\* stored when restore_backup brings back the database of a backup that
\* holds one.
C18_ImportExportOrderingOrRestore ==
    /\ original_excel_files = <<>>
    /\ [][/\ ExportSteps
          /\ (original_excel_files' # <<>> /\ original_excel_files' # original_excel_files)
                => \/ SuccessfulImport
                   \/ /\ ret'.op = "restore_backup"
                      /\ ret'.value
                      /\ original_excel_files' = ret'.file.projects_db.original_excel_files]_vars

\* an export returned the workbook of the file stored by the last successful
\* import, the projects table having changed since
C18_WitnessExport ==
    /\ ret.op = "export_project_template"
    /\ ret.value.found
    /\ ret.value.workbook[1].nrows = 22
    /\ \E r \in projects : r.project_name = Text("P2")

\* restore_backup has brought a stored file back into a database that held
\* none
C18_Witness ==
    /\ ret.op = "restore_backup"
    /\ ret.value
    /\ ret.before.original_excel_files = <<>>
    /\ get_latest_original_excel_file(original_excel_files).found

====
